---- MODULE Spec2Model ----
(***************************************************************************)
(* Hebrew manuscript extractor: the entity extraction and classification   *)
(* core.  Texts are strings of Unicode characters, as in the Python        *)
(* source; offsets are 0-based and slices are half-open, as in Python.     *)
(* Regular expressions are data (records) interpreted by a backtracking    *)
(* matcher that returns the possible match ends in the priority order of   *)
(* Python's re module.                                                     *)
(***************************************************************************)
EXTENDS Integers, Sequences, FiniteSets, TLC

VARIABLES
    pc,              \* position of the running call / pipeline phase
    text,            \* text argument of the pure function under call
    word,            \* name / word argument of the pure function under call
    out,             \* value returned by the pure function under call
    mode,            \* "hybrid" (classify_entities_hybrid), "plain" (classify_entities)
                     \* or "direct" (a call of GrokClassifier.classify_entities)
    requests_available, \* can _classify_chunk import the requests library?
    manuscripts,     \* input list of Manuscript records
    ms_index,        \* position of the manuscript loop (1-based)
    all_classified,  \* manuscript_id -> list of ClassifiedEntity
    needs_ai,        \* needs_ai_classification: list of (ms, unclassified_entities)
    job,             \* the GrokClassifier.classify_entities call in progress, or NoJob
    batch,           \* the _classify_batch call in progress, or NoBatch
    chunks,          \* the _classify_chunk calls submitted by the batch in progress
    pattern_snapshot, \* history: all_classified as the pattern phase left it
    log,             \* history: the finished _classify_chunk calls
    kima,            \* the KimaGazetteer index given to the call under way
    calls,           \* history: recursive calls of KimaGazetteer.lookup made so far
    confidence_arg,  \* confidence argument of the ExtractedEntity under construction
    config,          \* the Config given to run_extraction_pipeline, or NoConfig
    data_dir,        \* the files of the Kima data directory
    warnings         \* history: the warnings printed so far

vars == <<pc, text, word, out, mode, requests_available, manuscripts, ms_index,
          all_classified, needs_ai, job, batch, chunks, pattern_snapshot, log,
          kima, calls, confidence_arg, config, data_dir, warnings>>

\* Python's None
None == "None"

\* no classify_entities call, no _classify_batch call in progress
NoJob   == [manuscript_id |-> None]
NoBatch == [entity_type |-> None]

\* no run_extraction_pipeline call; a path at which nothing exists
NoConfig == [input_excel_path |-> None]
Missing  == [exists |-> FALSE]

----------------------------------------------------------------------------
(* Strings and sequences *)

Min(a, b) == IF a < b THEN a ELSE b
Max(a, b) == IF a > b THEN a ELSE b

\* Python t[a:b] for 0 <= a, b (b is clamped to len(t))
Slice(t, a, b) == SubSeq(t, a + 1, Min(b, Len(t)))

\* Python t[i], as a one-character string
Ch(t, i) == SubSeq(t, i + 1, i + 1)

RECURSIVE Flat(_)
Flat(ss) ==
    IF ss = <<>> THEN <<>>
    ELSE IF Len(ss) = 1 THEN ss[1]
    ELSE LET half == Len(ss) \div 2
         IN  Flat(SubSeq(ss, 1, half)) \o Flat(SubSeq(ss, half + 1, Len(ss)))

IsIn(x, s) == \E n \in 1..Len(s) : s[n] = x

\* the element of a one-element set
TheOne(S) == CHOOSE x \in S : TRUE

\* keeps the first occurrence of every element
RECURSIVE Dedup(_)
Dedup(s) ==
    IF Len(s) <= 1 THEN s
    ELSE LET half  == Len(s) \div 2
             left  == Dedup(SubSeq(s, 1, half))
             right == Dedup(SubSeq(s, half + 1, Len(s)))
         IN  left \o SelectSeq(right, LAMBDA x : ~ IsIn(x, left))

\* " ".join(ws)
RECURSIVE JoinWords(_)
JoinWords(ws) ==
    IF ws = <<>> THEN ""
    ELSE IF Len(ws) = 1 THEN ws[1]
    ELSE ws[1] \o " " \o JoinWords(Tail(ws))

\* the sequences over V of length 1..n
RECURSIVE SeqsUpTo(_, _)
SeqsUpTo(V, n) ==
    IF n = 0 THEN {}
    ELSE LET S == SeqsUpTo(V, n - 1)
         IN  {<<v>> : v \in V} \cup S \cup {Append(s, v) : s \in S, v \in V}

----------------------------------------------------------------------------
(* Character classes of Python's re (str patterns, Unicode) *)

HebLetters == {"א","ב","ג","ד","ה","ו","ז","ח","ט","י","ך","כ","ל","ם","מ",
               "ן","נ","ס","ע","ף","פ","ץ","צ","ק","ר","ש","ת"}
Digits     == {"0","1","2","3","4","5","6","7","8","9"}
LatinLower == {"a","b","c","d","e","f","g","h","i","j","k","l","m",
               "n","o","p","q","r","s","t","u","v","w","x","y","z"}
LatinUpper == {"A","B","C","D","E","F","G","H","I","J","K","L","M",
               "N","O","P","Q","R","S","T","U","V","W","X","Y","Z"}
\* \s
WhiteSpace == {" ", "\t", "\n"}
\* \w : alphanumerics and the underscore
WordChars  == HebLetters \cup Digits \cup LatinLower \cup LatinUpper \cup {"_"}

----------------------------------------------------------------------------
(* Regular expressions *)

Lit(s)      == [op |-> "lit", s |-> s]                \* re.escape(s) / literal text
Cls(S)      == [op |-> "cls", set |-> S]              \* [...]
NCls(S)     == [op |-> "ncls", set |-> S]             \* [^...]
Cat(rs)     == [op |-> "cat", rs |-> rs]              \* r1 r2 ...
Alt(rs)     == [op |-> "alt", rs |-> rs]              \* r1|r2|...
Opt(r)      == [op |-> "opt", r |-> r]                \* (?:r)?
Plus(r)     == [op |-> "plus", r |-> r]               \* r+   (greedy)
Star(r)     == [op |-> "star", r |-> r]               \* r*   (greedy)
LazyStar(r) == [op |-> "lazystar", r |-> r]           \* r*?
WB          == [op |-> "wb"]                          \* \b
EOS         == [op |-> "eos"]                         \* $
NotBehind(S) == [op |-> "nlb", set |-> S]             \* (?<![...])
NotAhead(r)  == [op |-> "nla", r |-> r]               \* (?!r)

Sp    == Plus(Cls(WhiteSpace))          \* \s+
Sp0   == Star(Cls(WhiteSpace))          \* \s*
W1    == Plus(Cls(WordChars))           \* \w+
AnyLz == LazyStar(NCls({"\n"}))         \* .*?

IsWordAt(t, i) == i >= 0 /\ i < Len(t) /\ Ch(t, i) \in WordChars

RECURSIVE MatchEnds(_, _, _)
RECURSIVE CatEnds(_, _, _, _)
RECURSIVE RepEnds(_, _, _)
RECURSIVE RunEnd(_, _, _, _)

\* the first offset in lo..hi where the run of characters matching the class r breaks
RunEnd(r, t, lo, hi) ==
    IF lo >= hi THEN hi
    ELSE IF hi - lo = 1
         THEN (IF (Ch(t, lo) \in r.set) = (r.op = "cls") THEN hi ELSE lo)
    ELSE LET mid  == (lo + hi) \div 2
             left == RunEnd(r, t, lo, mid)
         IN  IF left < mid THEN left ELSE RunEnd(r, t, mid, hi)

\* ends of the k-th and later parts of rs, from each of the starts, in priority order
CatEnds(rs, k, t, starts) ==
    IF k > Len(rs) \/ starts = <<>> THEN starts
    ELSE CatEnds(rs, k + 1, t,
                 IF Len(starts) = 1 THEN MatchEnds(rs[k], t, starts[1])
                 ELSE Dedup(Flat([n \in 1..Len(starts) |-> MatchEnds(rs[k], t, starts[n])])))

\* ends of one or more repetitions of r from i, shortest first
RepEnds(r, t, i) ==
    IF r.op \in {"cls", "ncls"}
    THEN [k \in 1..(RunEnd(r, t, i, Len(t)) - i) |-> i + k]
    ELSE LET e1 == MatchEnds(r, t, i)
             fw == SelectSeq(e1, LAMBDA j : j > i)
         IN  Dedup(e1 \o Flat([n \in 1..Len(fw) |-> RepEnds(r, t, fw[n])]))

Reverse(s) == [n \in 1..Len(s) |-> s[Len(s) + 1 - n]]

\* the offsets j, best first, such that r matches t[i:j]
MatchEnds(r, t, i) ==
    CASE r.op = "lit"  -> IF Slice(t, i, i + Len(r.s)) = r.s THEN <<i + Len(r.s)>> ELSE <<>>
      [] r.op = "cls"  -> IF i < Len(t) /\ Ch(t, i) \in r.set THEN <<i + 1>> ELSE <<>>
      [] r.op = "ncls" -> IF i < Len(t) /\ Ch(t, i) \notin r.set THEN <<i + 1>> ELSE <<>>
      [] r.op = "cat"  -> CatEnds(r.rs, 1, t, <<i>>)
      [] r.op = "alt"  -> Dedup(Flat([n \in 1..Len(r.rs) |-> MatchEnds(r.rs[n], t, i)]))
      [] r.op = "opt"  -> Dedup(MatchEnds(r.r, t, i) \o <<i>>)
      [] r.op = "plus" -> Reverse(RepEnds(r.r, t, i))
      [] r.op = "star" -> Dedup(Reverse(RepEnds(r.r, t, i)) \o <<i>>)
      [] r.op = "lazystar" -> Dedup(<<i>> \o RepEnds(r.r, t, i))
      [] r.op = "wb"   -> IF IsWordAt(t, i - 1) # IsWordAt(t, i) THEN <<i>> ELSE <<>>
      [] r.op = "eos"  -> IF i = Len(t) \/ (i = Len(t) - 1 /\ Ch(t, i) = "\n")
                          THEN <<i>> ELSE <<>>
      [] r.op = "nlb"  -> IF i > 0 /\ Ch(t, i - 1) \in r.set THEN <<>> ELSE <<i>>
      [] r.op = "nla"  -> IF MatchEnds(r.r, t, i) # <<>> THEN <<>> ELSE <<i>>

NoMatch == [start |-> -1, end |-> -1]

\* the leftmost match of r that starts at one of the offsets lo..hi
RECURSIVE SearchIn(_, _, _, _)
SearchIn(r, t, lo, hi) ==
    IF lo > hi THEN NoMatch
    ELSE IF lo = hi
         THEN LET e == MatchEnds(r, t, lo)
              IN  IF e # <<>> THEN [start |-> lo, end |-> e[1]] ELSE NoMatch
    ELSE LET mid  == (lo + hi) \div 2
             left == SearchIn(r, t, lo, mid)
         IN  IF left # NoMatch THEN left ELSE SearchIn(r, t, mid + 1, hi)

\* re.search(r, t) from offset `from`: the leftmost match, NoMatch when there is none
SearchFrom(r, t, from) == SearchIn(r, t, from, Len(t))

re_search(r, t) == SearchFrom(r, t, 0)
Found(r, t)     == re_search(r, t) # NoMatch

\* re.finditer(r, t): the successive non-overlapping matches
RECURSIVE FindIterFrom(_, _, _)
FindIterFrom(r, t, from) ==
    LET m == SearchFrom(r, t, from)
    IN  IF m = NoMatch THEN <<>>
        ELSE <<m>> \o FindIterFrom(r, t, IF m.end = m.start THEN m.end + 1 ELSE m.end)

re_finditer(r, t) == FindIterFrom(r, t, 0)

\* str.find(sub): offset of the first occurrence, -1 when there is none
str_find(t, sub) == re_search(Lit(sub), t).start

\* sub in t
Contains(t, sub) == str_find(t, sub) # -1

LowerMap == [c \in LatinUpper |->
             CASE c = "A" -> "a" [] c = "B" -> "b" [] c = "C" -> "c" [] c = "D" -> "d"
               [] c = "E" -> "e" [] c = "F" -> "f" [] c = "G" -> "g" [] c = "H" -> "h"
               [] c = "I" -> "i" [] c = "J" -> "j" [] c = "K" -> "k" [] c = "L" -> "l"
               [] c = "M" -> "m" [] c = "N" -> "n" [] c = "O" -> "o" [] c = "P" -> "p"
               [] c = "Q" -> "q" [] c = "R" -> "r" [] c = "S" -> "s" [] c = "T" -> "t"
               [] c = "U" -> "u" [] c = "V" -> "v" [] c = "W" -> "w" [] c = "X" -> "x"
               [] c = "Y" -> "y" [] c = "Z" -> "z"]

\* str.lower(); Hebrew has no case
RECURSIVE Lower(_)
Lower(t) ==
    IF t = "" THEN ""
    ELSE IF Len(t) = 1 THEN (IF t \in DOMAIN LowerMap THEN LowerMap[t] ELSE t)
    ELSE LET half == Len(t) \div 2
         IN  Lower(Slice(t, 0, half)) \o Lower(Slice(t, half, Len(t)))

\* str.strip()
RECURSIVE LStrip(_)
LStrip(t) == IF t # "" /\ Ch(t, 0) \in WhiteSpace THEN LStrip(Slice(t, 1, Len(t))) ELSE t
RECURSIVE RStrip(_)
RStrip(t) == IF t # "" /\ Ch(t, Len(t) - 1) \in WhiteSpace
             THEN RStrip(Slice(t, 0, Len(t) - 1)) ELSE t
Strip(t) == LStrip(RStrip(t))

----------------------------------------------------------------------------
(* classification/grok_classifier.py: the closed label sets *)

DATE_LABELS ==
    {"work creation date", "work composition date", "intellectual creation date",
     "expression creation date", "text creation date", "version creation date",
     "manifestation creation date", "edition creation date",
     "manuscript production date", "copying date", "writing date", "scribal date",
     "publication date", "printing date", "print date", "press date", "binding date",
     "restoration date", "repair date", "modification date", "rebinding date",
     "illumination date", "decoration date", "transfer of custody date",
     "acquisition date", "purchase date", "sale date", "donation date", "bequest date",
     "gift date", "loan date", "auction date", "confiscation date", "cataloging date",
     "reference date", "citation date", "scholarly reference date",
     "catalog entry date", "digitization date", "imaging date", "photographing date",
     "microfilming date", "exhibition date", "display date", "birth date", "death date",
     "floruit date", "active date", "marriage date", "colophon date",
     "colophon completion date", "colophon inscription date", "annotation date",
     "inscription date", "marginal note date", "gloss date", "dedication date",
     "signature date", "reading date", "study date", "censorship date",
     "examination date"}

LOCATION_LABELS ==
    {"production place", "written in", "copied in", "scribed in", "created in",
     "produced in", "published in", "printed in", "press location", "bound in",
     "restored in", "repaired in", "illuminated in", "decorated in", "moved to",
     "moved from", "transferred to", "transferred from", "brought from", "sent to",
     "dispatched to", "shipped from", "born in", "died in", "birth place",
     "death place", "lived in", "resided in", "dwelling in", "domiciled in",
     "worked in", "active in", "studied in", "taught in", "preserved in", "kept in",
     "stored in", "held in", "housed in", "located in", "owned in", "possession in",
     "repository", "library location", "archive location", "collection location",
     "mentioned place", "referenced place", "cited place", "place reference", "visited",
     "traveled to", "journeyed to", "passed through", "cataloged in", "documented in",
     "examined in", "photographed in", "digitized in", "exhibited in", "displayed in",
     "shown in"}

PERSON_LABELS ==
    {"scribe", "copyist", "illuminator", "author", "translator", "commentator",
     "owner", "previous owner", "donor", "purchaser", "seller", "cataloger",
     "censor", "patron", "dedicatee", "colophon scribe", "mentioned person"}

----------------------------------------------------------------------------
(* classification/hebrew_patterns.py: person roles *)

HebrewPattern(role, patterns) == [role |-> role, patterns |-> patterns]

\* (?:על\s+)?
OptAl == Opt(Cat(<<Lit("על"), Sp>>))

SCRIBE_PATTERNS == HebrewPattern("scribe", <<
    Cat(<<Lit("נשלם"), Sp, OptAl, Alt(<<Lit("ידי"), Lit("יד")>>)>>),
    Cat(<<Lit("נכתב"), Sp, OptAl, Alt(<<Lit("ידי"), Lit("ביד")>>)>>),
    Cat(<<Lit("כתב"), Opt(Alt(<<Lit("ו"), Lit("תי"), Lit("ה")>>))>>),
    Lit("העתיק"),
    Lit("מעתיק"),
    Lit("הכותב"),
    Lit("סופר"),
    Cat(<<Lit("נעתק"), Sp, OptAl, Lit("ידי")>>) >>)

AUTHOR_PATTERNS == HebrewPattern("author", <<
    Lit("מחבר"),
    Cat(<<Lit("חיבר"), Opt(Lit("ו"))>>),
    Lit("המחבר"),
    Lit("מאת"),
    Lit("חברו"),
    Lit("יסדו"),
    Cat(<<Lit("חבר"), Sp, Lit("ה"), Alt(<<Lit("ר"), Lit("רב")>>)>>) >>)

OWNER_PATTERNS == HebrewPattern("owner", <<
    Lit("רשות"),
    Cat(<<Lit("שייך"), Sp, Lit("ל")>>),
    Cat(<<Lit("זה"), Sp, Lit("הספר"), Sp, Lit("של")>>),
    Lit("בעלים"),
    Lit("ממון"),
    Cat(<<Lit("של"), Sp, Lit("כמ"), Cls({"\"", "'"})>>),
    Lit("שלי") >>)

PREVIOUS_OWNER_PATTERNS == HebrewPattern("previous owner", <<
    Cat(<<Lit("היה"), Sp, Alt(<<Lit("רשות"), Lit("של")>>)>>),
    Cat(<<Lit("מסר"), Sp, Lit("מ")>>),
    Lit("העביר"),
    Cat(<<Lit("היה"), Sp, Lit("בעלים")>>) >>)

PURCHASER_PATTERNS == HebrewPattern("purchaser", <<
    Lit("קנה"),
    Lit("קניתי"),
    Lit("רכש"),
    Lit("קנאו"),
    Cat(<<Lit("נקנה"), Sp, OptAl, Lit("יד"), Opt(Lit("י"))>>) >>)

SELLER_PATTERNS == HebrewPattern("seller", <<
    Lit("מכר"),
    Cat(<<Lit("נמכר"), Sp, Lit("מיד")>>),
    Lit("מכרו") >>)

DONOR_PATTERNS == HebrewPattern("donor", <<
    Lit("הקדיש"),
    Lit("תרם"),
    Cat(<<Lit("נתן"), Sp, Lit("במתנה")>>),
    Lit("הקדשתי"),
    Cat(<<Lit("נתן"), Sp, Lit("ל")>>) >>)

TRANSLATOR_PATTERNS == HebrewPattern("translator", <<
    Lit("תרגם"),
    Lit("מתרגם"),
    Lit("תרגום"),
    Lit("התרגום") >>)

COMMENTATOR_PATTERNS == HebrewPattern("commentator", <<
    Lit("פירש"),
    Lit("מפרש"),
    Lit("פרשן"),
    Lit("ביאר"),
    Lit("מבאר") >>)

ILLUMINATOR_PATTERNS == HebrewPattern("illuminator", <<
    Lit("צייר"),
    Lit("מאייר"),
    Lit("ציר"),
    Lit("עטר") >>)

CATALOGER_PATTERNS == HebrewPattern("cataloger", <<
    Lit("קטלג"),
    Lit("מקטלג"),
    Lit("רשם") >>)

CENSOR_PATTERNS == HebrewPattern("censor", <<
    Lit("צנזור"),
    Lit("בוחן"),
    Lit("בדק") >>)

COLOPHON_SCRIBE_PATTERNS == HebrewPattern("colophon scribe", <<
    Cat(<<Alt(<<Lit("נשלם"), Lit("קולופון")>>), AnyLz,
          Alt(<<Lit("נכתב"), Lit("כתב")>>)>>) >>)

ALL_PERSON_PATTERNS == <<
    COLOPHON_SCRIBE_PATTERNS,
    SCRIBE_PATTERNS,
    AUTHOR_PATTERNS,
    TRANSLATOR_PATTERNS,
    COMMENTATOR_PATTERNS,
    ILLUMINATOR_PATTERNS,
    OWNER_PATTERNS,
    PREVIOUS_OWNER_PATTERNS,
    PURCHASER_PATTERNS,
    SELLER_PATTERNS,
    DONOR_PATTERNS,
    CATALOGER_PATTERNS,
    CENSOR_PATTERNS >>

\* default context_window of extract_person_context and extract_location_context
CONTEXT_WINDOW == 100
\* length of the text prefix extract_person_context returns for a name not in the text
PERSON_FALLBACK_PREFIX == 500

\* the context that is the whole text, however far from the name
extract_person_context_whole_text(t, person_name) == t

extract_person_context(t, person_name) ==
    LET m == re_search(Lit(Lower(person_name)), Lower(t))
    IN  IF m = NoMatch THEN Slice(t, 0, PERSON_FALLBACK_PREFIX)
        ELSE Slice(t, Max(0, m.start - CONTEXT_WINDOW), Min(Len(t), m.end + CONTEXT_WINDOW))

\* does any of the patterns of one family match in the context?  (re.IGNORECASE: the
\* patterns are written in lower case and the caller passes the context lowered)
FamilyMatches(pattern_set, context) ==
    \E n \in 1..Len(pattern_set.patterns) : Found(pattern_set.patterns[n], context)

\* the role of the first family of `patterns`, from index k on, that matches
RECURSIVE FirstFamilyRole(_, _, _)
FirstFamilyRole(patterns, k, context) ==
    IF k > Len(patterns) THEN None
    ELSE IF FamilyMatches(patterns[k], context) THEN patterns[k].role
    ELSE FirstFamilyRole(patterns, k + 1, context)

\* the classifier that answers "unknown" where no family matches
classify_person_by_patterns_unknown(t, person_name) ==
    LET role == FirstFamilyRole(ALL_PERSON_PATTERNS, 1, Lower(extract_person_context(t, person_name)))
    IN  IF role = None THEN "unknown" ELSE role

classify_person_by_patterns(t, person_name) ==
    FirstFamilyRole(ALL_PERSON_PATTERNS, 1, Lower(extract_person_context(t, person_name)))

----------------------------------------------------------------------------
(* classification/hebrew_patterns.py: location relationships *)

PRODUCTION_PLACE_PATTERNS == HebrewPattern("production place", <<
    Cat(<<Lit("נכתב"), Sp, Lit("ב")>>),
    Cat(<<Lit("נכתב"), Sp, Lit("עיר")>>),
    Cat(<<Lit("נכתב"), Sp, Lit("פה")>>),
    Cat(<<Lit("הועתק"), Sp, Lit("ב")>>),
    Cat(<<Lit("הועתק"), Sp, Lit("עיר")>>),
    Cat(<<Lit("נעשה"), Sp, Lit("ב")>>),
    Cat(<<Lit("נשלם"), Sp, Lit("ב"), Opt(Lit("עיר"))>>),
    Cat(<<Lit("נגמר"), Sp, Lit("ב")>>),
    Cat(<<Lit("סיימתיו"), Sp, Lit("ב")>>),
    Cat(<<Lit("כתוב"), Sp, Lit("ב")>>),
    Cat(<<Lit("קולופון"), AnyLz, Lit("נכתב"), Sp, Lit("ב")>>),
    Cat(<<Lit("קולופון"), AnyLz, Lit("נשלם"), Sp, Lit("ב")>>),
    Cat(<<Lit("קולופון"), AnyLz, Lit("הועתק"), Sp, Lit("ב")>>) >>)

PUBLICATION_PLACE_PATTERNS == HebrewPattern("published in", <<
    Cat(<<Lit("נדפס"), Sp, Lit("ב")>>),
    Cat(<<Lit("הוצא"), Sp, Lit("לאור"), Sp, Lit("ב")>>),
    Lit("דפוס"),
    Cat(<<Lit("נדפס"), Sp, Lit("עיר")>>),
    Cat(<<Lit("הודפס"), Sp, Lit("ב")>>) >>)

RESIDENCE_PATTERNS == HebrewPattern("resided in", <<
    Cat(<<Lit("גר"), Sp, Lit("ב")>>),
    Cat(<<Lit("ישב"), Sp, Lit("ב")>>),
    Cat(<<Lit("דר"), Sp, Lit("ב")>>),
    Cat(<<Lit("מגורים"), Sp, Lit("ב")>>),
    Cat(<<Lit("התגורר"), Sp, Lit("ב")>>),
    Cat(<<Lit("מושבו"), Sp, Lit("ב")>>),
    Cat(<<Lit("בהיותי"), Sp, Lit("ב")>>),
    Cat(<<Lit("בהיותו"), Sp, Lit("ב")>>),
    Cat(<<Lit("בהיותם"), Sp, Lit("ב")>>),
    Cat(<<Lit("בורח"), Sp, Lit("מ")>>),
    Cat(<<Lit("מתגורר"), Sp, Lit("ב")>>) >>)

\* (?:כיום\s+)?
OptKayom == Opt(Cat(<<Lit("כיום"), Sp>>))

PRESERVATION_PATTERNS == HebrewPattern("preserved in", <<
    Cat(<<Lit("נמצא"), Sp, OptKayom, Lit("ב")>>),
    Cat(<<Lit("שמור"), Sp, OptKayom, Lit("ב")>>),
    Lit("ספריית"),
    Lit("באוסף"),
    Lit("בספרייה"),
    Cat(<<Lit("ומספרו"), Sp, Alt(<<Lit("עתה"), Lit("שם")>>)>>),
    Cat(<<Lit("מספרו"), Sp, Lit("עתה")>>) >>)

PERSON_ORIGIN_PATTERNS == HebrewPattern("born in", <<
    Cat(<<Lit("נולד"), Sp, Lit("ב")>>),
    Lit("יליד"),
    Lit("ילידת"),
    Lit("מולדתו") >>)

PERSON_DEATH_PATTERNS == HebrewPattern("died in", <<
    Cat(<<Lit("נפטר"), Sp, Lit("ב")>>),
    Cat(<<Lit("מת"), Sp, Lit("ב")>>),
    Cat(<<Lit("נקבר"), Sp, Lit("ב")>>),
    Cat(<<Lit("פטירתו"), Sp, Lit("ב")>>) >>)

PERSON_ACTIVITY_PATTERNS == HebrewPattern("worked in", <<
    Cat(<<Lit("עבד"), Sp, Lit("ב")>>),
    Cat(<<Lit("פעל"), Sp, Lit("ב")>>),
    Cat(<<Lit("שימש"), Sp, Lit("ב")>>),
    Cat(<<Lit("כיהן"), Sp, Lit("ב")>>),
    Cat(<<Lit("היה"), Sp, Lit("רב"), Sp, Lit("ב")>>) >>)

TRANSFER_PATTERNS == HebrewPattern("transferred to", <<
    Cat(<<Lit("הועבר"), Sp, Lit("ל")>>),
    Cat(<<Lit("נמסר"), Sp, Lit("ל")>>),
    Cat(<<Lit("הובא"), Sp, Lit("מ")>>),
    Cat(<<Lit("נשלח"), Sp, Lit("ל")>>),
    Cat(<<Lit("נמכר"), Sp, Lit("ל")>>),
    Cat(<<Lit("נרכש"), Sp,
          Alt(<<Cat(<<Lit("ע"), Alt(<<Lit("\"י"), Lit("י")>>)>>), Lit("מ")>>)>>),
    Lit("לפנים"),
    Lit("מאוסף") >>)

ALL_LOCATION_PATTERNS == <<
    PRODUCTION_PLACE_PATTERNS,
    PUBLICATION_PLACE_PATTERNS,
    PERSON_ORIGIN_PATTERNS,
    PERSON_DEATH_PATTERNS,
    RESIDENCE_PATTERNS,
    PERSON_ACTIVITY_PATTERNS,
    TRANSFER_PATTERNS,
    PRESERVATION_PATTERNS >>

\* r'\s*\([^)]+\)\s*$' : a trailing parenthetical (country) qualifier
COUNTRY_SUFFIX == Cat(<<Sp0, Lit("("), Plus(NCls({")"})), Lit(")"), Sp0, EOS>>)

\* re.sub(r'\s*\([^)]+\)\s*$', '', name)
strip_country_suffix(name) ==
    LET m == re_search(COUNTRY_SUFFIX, name)
    IN  IF m = NoMatch THEN name
        ELSE Slice(name, 0, m.start) \o Slice(name, m.end, Len(name))

\* location_base of extract_location_context
location_base_of(location_name) == Strip(strip_country_suffix(location_name))

\* search_variants of extract_location_context, in the order they are tried
\* the search that forgets the base form and looks for the qualified name only
search_variants_full_name_only(location_name) == <<Lit(Lower(location_name))>>

search_variants(location_name) ==
    LET location_base == location_base_of(location_name)
    IN  <<Lit(Lower("ב" \o location_base)), Lit(Lower(location_base))>>
        \o (IF location_base # location_name THEN <<Lit(Lower(location_name))>> ELSE <<>>)

\* the match of the first variant, from index k on, found in the text
RECURSIVE FirstVariantMatch(_, _, _)
FirstVariantMatch(variants, k, t) ==
    IF k > Len(variants) THEN NoMatch
    ELSE LET m == re_search(variants[k], Lower(t))
         IN  IF m # NoMatch THEN m ELSE FirstVariantMatch(variants, k + 1, t)

extract_location_context(t, location_name) ==
    LET m == FirstVariantMatch(search_variants(location_name), 1, t)
    IN  IF m = NoMatch THEN ""
        ELSE Slice(t, Max(0, m.start - CONTEXT_WINDOW), Min(Len(t), m.end + CONTEXT_WINDOW))

\* characters on each side of the location in broader_context
BROADER_WINDOW == 500

\* r'קולופון|נשלם\s+(?:בעיר)?|הועתק|נכתב(?:\s+בעיר)?'
COLOPHON_CONTEXT == Alt(<<
    Lit("קולופון"),
    Cat(<<Lit("נשלם"), Sp, Opt(Lit("בעיר"))>>),
    Lit("הועתק"),
    Cat(<<Lit("נכתב"), Opt(Cat(<<Sp, Lit("בעיר")>>))>>) >>)

\* r'ספריית|באוסף|בעלות|בידי|נמצא\s+ב|שמור\s+ב|repository|archive'
PRESERVATION_CONTEXT == Alt(<<
    Lit("ספריית"), Lit("באוסף"), Lit("בעלות"), Lit("בידי"),
    Cat(<<Lit("נמצא"), Sp, Lit("ב")>>),
    Cat(<<Lit("שמור"), Sp, Lit("ב")>>),
    Lit("repository"), Lit("archive") >>)

\* r'מאוסף|לפנים|בעבר|מיד|הועבר|נמכר|לקוח'
PROVENANCE_CONTEXT == Alt(<<
    Lit("מאוסף"), Lit("לפנים"), Lit("בעבר"), Lit("מיד"),
    Lit("הועבר"), Lit("נמכר"), Lit("לקוח") >>)

\* r'גר\s+ב|ישב\s+ב|דר\s+ב|מושבו|עיר|חי\s+ב'
RESIDENCE_CONTEXT == Alt(<<
    Cat(<<Lit("גר"), Sp, Lit("ב")>>),
    Cat(<<Lit("ישב"), Sp, Lit("ב")>>),
    Cat(<<Lit("דר"), Sp, Lit("ב")>>),
    Lit("מושבו"), Lit("עיר"),
    Cat(<<Lit("חי"), Sp, Lit("ב")>>) >>)

\* r'[,;]\s*(?:ו)?(?:ג)?[אב-ת]'
LIST_FORMAT == Cat(<<Cls({",", ";"}), Sp0, Opt(Lit("ו")), Opt(Lit("ג")), Cls(HebLetters)>>)

\* r'נושא|subject|subject matter|תחום'
SUBJECT_CONTEXT == Alt(<<Lit("נושא"), Lit("subject"), Lit("subject matter"), Lit("תחום")>>)

\* any(word in context.lower() for word in words)
AnyWordIn(words, context) ==
    LET lowered == Lower(context) IN \E n \in 1..Len(words) : Contains(lowered, words[n])

RECURSIVE RemoveParens(_)
RemoveParens(s) ==
    IF s = "" THEN ""
    ELSE (IF Ch(s, 0) \in {"(", ")"} THEN "" ELSE Ch(s, 0)) \o RemoveParens(Slice(s, 1, Len(s)))

\* the location name compiled as a regular expression (hebrew_patterns.py:536 does not
\* escape it): in a name made of letters, spaces and one balanced pair of parentheses
\* the parentheses form a group and match no character
name_as_regex(location_name) == Lit(Lower(RemoveParens(location_name)))

\* the cascade of five marker groups alone: the list format of the immediate context
\* is not consulted
location_heuristics_without_list_format(t, location_name, context, broader_context, location_pos) ==
    IF Found(COLOPHON_CONTEXT, broader_context) THEN "production place"
    ELSE IF Found(PRESERVATION_CONTEXT, broader_context) THEN "preserved in"
    ELSE IF Found(PROVENANCE_CONTEXT, broader_context) THEN "transferred to"
    ELSE IF Found(RESIDENCE_CONTEXT, broader_context) THEN "resided in"
    ELSE IF Found(SUBJECT_CONTEXT, broader_context) THEN "active in"
    ELSE "production place"

\* HEURISTICS 1 to 6: the label of a located mention that no pattern family matches
location_heuristics(t, location_name, context, broader_context, location_pos) ==
    IF Found(COLOPHON_CONTEXT, broader_context) THEN "production place"
    ELSE IF Found(PRESERVATION_CONTEXT, broader_context) THEN "preserved in"
    ELSE IF Found(PROVENANCE_CONTEXT, broader_context) THEN "transferred to"
    ELSE IF Found(RESIDENCE_CONTEXT, broader_context) THEN "resided in"
    ELSE IF Found(LIST_FORMAT, context) THEN "transferred to"
    ELSE IF Found(SUBJECT_CONTEXT, broader_context) THEN "active in"
    \* len(all_locations) == 1 and location_pos < len(text) * 0.3
    ELSE IF Len(re_finditer(name_as_regex(location_name), Lower(t))) = 1
            /\ 10 * location_pos < 3 * Len(t)
         THEN "production place"
    ELSE IF AnyWordIn(<<"ספר", "כתב", "כתיבה", "כתיבת">>, context)
         THEN "production place"
    ELSE IF AnyWordIn(<<"הדפס", "הדפסה", "דפוס", "print">>, context)
         THEN "printed in"
    ELSE IF AnyWordIn(<<"מעתיק", "העתק", "העתקה", "copy">>, context)
         THEN "production place"
    ELSE "production place"

\* text_before + text_after, lowered as re.IGNORECASE reads it
broader_context_at(t, location_pos) ==
    Lower(Slice(t, Max(0, location_pos - BROADER_WINDOW), location_pos)
          \o Slice(t, location_pos, Min(Len(t), location_pos + BROADER_WINDOW)))

\* location_pos = text.find(context); -1 becomes 0
heuristics_from(t, location_name, context, found_at) ==
    TheOne({location_heuristics(t, location_name, context, broader_context, location_pos) :
                broader_context \in {broader_context_at(t, IF found_at = -1 THEN 0 ELSE found_at)},
                location_pos \in {IF found_at = -1 THEN 0 ELSE found_at}})

\* the role of the first matching family, the heuristics when there is none
primary_or_heuristics(t, location_name, context, primary) ==
    IF primary # None THEN primary
    ELSE TheOne({heuristics_from(t, location_name, context, found_at) :
                    found_at \in {str_find(t, extract_location_context(t, location_name))}})

\* the role of the last matching family, from index k down
RECURSIVE LastFamilyRole(_, _, _)
LastFamilyRole(patterns, k, context) ==
    IF k < 1 THEN None
    ELSE IF FamilyMatches(patterns[k], context) THEN patterns[k].role
    ELSE LastFamilyRole(patterns, k - 1, context)

\* the classifier that lets the last matching family decide
classify_location_in_context_last_family(t, location_name, context) ==
    IF context = "" \/ Strip(context) = "" THEN None
    ELSE primary_or_heuristics(t, location_name, context,
                               LastFamilyRole(ALL_LOCATION_PATTERNS, Len(ALL_LOCATION_PATTERNS),
                                              Lower(context)))

classify_location_in_context(t, location_name, context) ==
    IF context = "" \/ Strip(context) = "" THEN None
    ELSE TheOne({primary_or_heuristics(t, location_name, context, primary) :
                    primary \in {FirstFamilyRole(ALL_LOCATION_PATTERNS, 1, Lower(context))}})

classify_location_by_patterns(t, location_name) ==
    TheOne({classify_location_in_context(t, location_name, context) :
                context \in {extract_location_context(t, location_name)}})

----------------------------------------------------------------------------
(* extractors/location_validator.py *)

VALIDATOR_HEBREW_MONTHS ==
    {"ניסן", "אייר", "סיון", "תמוז", "אב", "אלול",
     "תשרי", "חשון", "כסלו", "טבת", "שבט", "אדר",
     "אדר א", "אדר ב", "ירח"}

COMMON_HEBREW_WORDS ==
    {"אני", "או", "אן", "אם", "בר", "מר", "נר",
     "פרט", "סעד", "שנה", "יום", "ירח",
     "רב", "מור", "רבי", "חכם",
     "צמח", "נחם", "אמר", "עזר", "אשר", "נעם",
     "עומר", "שחר", "קדם", "קדמה", "עילם",
     "אור", "עידן", "סעדיה", "עזריה", "מנחם",
     "ספר", "ספאר", "עיר", "קהל", "בית",
     "מים", "אש", "רוח", "עפר",
     "נושא", "בכתבי", "כתב", "כתבו", "כתבי", "מנחת",
     "מן", "על", "אל", "את", "עם", "של",
     "ב", "ל", "מ", "כ", "ה", "ו", "ש",
     "שמש", "צדק", "נוגה", "שבתאי",
     "א", "ג", "ד", "ז", "ח", "ט", "י",
     "אב", "אג", "אד", "אה", "אז", "אי", "בא",
     "בה", "בו", "גב", "דב", "הב", "וב", "זב"}

NON_LOCATION_CONTEXTS == <<
    Cat(<<Lit("לפרט"), Sp, W1>>),
    Cat(<<Lit("לשטרות"), Sp, W1>>),
    Cat(<<Lit("בשנת"), Sp, W1>>),
    Cat(<<Lit("שנת"), Sp, W1>>),
    Lit("מר\"ח"),
    Lit("ר\"ח"),
    Cat(<<Lit("חדש"), Sp, W1>>),
    Cat(<<Lit("בחדש"), Sp, W1>>),
    Cat(<<Lit("בן"), Sp, W1>>),
    Cat(<<Lit("בר"), Sp, W1>>),
    Cat(<<Lit("בת"), Sp, W1>>),
    Cat(<<Lit("רבי"), Sp, W1>>),
    Cat(<<Lit("הרב"), Sp, W1>>),
    Cat(<<Lit("ר'"), Sp0, W1>>),
    Cat(<<Lit("מאת"), Sp, W1>>),
    Cat(<<Lit("אמר"), Sp, W1>>) >>

LOCATION_CONTEXT_INDICATORS == <<
    Cat(<<Lit("נכתב"), Sp, Lit("ב")>>),
    Cat(<<Lit("נשלם"), Sp, Lit("ב")>>),
    Cat(<<Lit("הועתק"), Sp, Lit("ב")>>),
    Cat(<<Lit("נדפס"), Sp, Lit("ב")>>),
    Cat(<<Lit("בהיותי"), Sp, Lit("ב")>>),
    Cat(<<Lit("בהיותו"), Sp, Lit("ב")>>),
    Cat(<<Lit("גר"), Sp, Lit("ב")>>),
    Cat(<<Lit("ישב"), Sp, Lit("ב")>>),
    Cat(<<Lit("בורח"), Sp, Lit("מ")>>),
    Cat(<<Lit("יצא"), Sp, Lit("מ")>>),
    Cat(<<Lit("בא"), Sp, Lit("מ")>>),
    Cat(<<Lit("עלה"), Sp, Lit("מ")>>),
    Cat(<<Lit("נסע"), Sp, Lit("מ")>>),
    Cat(<<Lit("מ"), W1, Sp, Lit("("), Plus(Cls(WordChars \cup WhiteSpace)), Lit(")")>>),
    Cat(<<Lit("ספריית"), Sp>>),
    Cat(<<Lit("באוסף"), Sp>>),
    Cat(<<Lit("במוזיאון"), Sp>>),
    Cat(<<Lit("בעיר"), Sp>>),
    Cat(<<Lit("בארץ"), Sp>>),
    Cat(<<Lit("במדינת"), Sp>>),
    Cat(<<Lit("לפנים"), Sp>>) >>

\* vowel points and cantillation marks of the range ֑-ׇ that the model's
\* words may carry
Nikud == {"ְ", "ֱ", "ֲ", "ֳ", "ִ", "ֵ", "ֶ", "ַ", "ָ", "ֹ", "ֻ", "ּ", "ׁ", "ׂ"}

\* re.sub(r'[֑-ׇ]', '', s)
RECURSIVE RemoveNikud(_)
RemoveNikud(s) ==
    IF s = "" THEN ""
    ELSE (IF Ch(s, 0) \in Nikud THEN "" ELSE Ch(s, 0)) \o RemoveNikud(Slice(s, 1, Len(s)))

\* len(word_no_nikud) <= 2 is blacklisted as too short
BLACKLIST_MAX_SHORT == 2

is_blacklisted(w) ==
    LET word_no_nikud == RemoveNikud(Strip(w))
    IN  \/ word_no_nikud \in VALIDATOR_HEBREW_MONTHS
        \/ word_no_nikud \in COMMON_HEBREW_WORDS
        \/ Len(word_no_nikud) <= BLACKLIST_MAX_SHORT

AnyFound(patterns, context) == \E n \in 1..Len(patterns) : Found(patterns[n], context)

DATE_WINDOW == 50

is_in_date_context(t, position) ==
    LET start == Max(0, position - DATE_WINDOW)
        end == Min(Len(t), position + DATE_WINDOW)
    IN  AnyFound(NON_LOCATION_CONTEXTS, Slice(t, start, end))

PERSON_WINDOW == 30

person_indicators == <<
    Cat(<<Lit("בן"), Sp, W1>>), Cat(<<Lit("בר"), Sp, W1>>), Cat(<<Lit("בת"), Sp, W1>>),
    Cat(<<Lit("רבי"), Sp, W1>>), Cat(<<Lit("הרב"), Sp, W1>>), Cat(<<Lit("ר'"), Sp0, W1>>),
    Cat(<<Lit("מאת"), Sp, W1>>), Cat(<<Lit("אמר"), Sp, W1>>), Cat(<<Lit("כתב"), Sp, W1>>),
    Cat(<<W1, Sp, Lit("בן"), Sp>>), Cat(<<W1, Sp, Lit("בר"), Sp>>) >>

is_in_person_name_context(t, position) ==
    LET start == Max(0, position - PERSON_WINDOW)
        end == Min(Len(t), position + PERSON_WINDOW)
    IN  AnyFound(person_indicators, Slice(t, start, end))

\* r'\s*\([א-ת\s,]+\)\s*$'
HEBREW_COUNTRY_SUFFIX ==
    Cat(<<Sp0, Lit("("), Plus(Cls(HebLetters \cup WhiteSpace \cup {","})), Lit(")"), Sp0, EOS>>)

has_location_context_indicator(t, w) ==
    LET word_base == Strip(strip_country_suffix(w))
        m1 == re_search(Lit("ב" \o word_base), t)
        m2 == re_search(Cat(<<WB, Lit(word_base), WB>>), t)
        position == IF m1 # NoMatch THEN m1.start ELSE m2.start
        start == Max(0, position - CONTEXT_WINDOW)
        end == Min(Len(t), position + CONTEXT_WINDOW)
    IN  IF position = -1 THEN FALSE
        ELSE IF AnyFound(LOCATION_CONTEXT_INDICATORS, Slice(t, start, end)) THEN TRUE
        ELSE Found(HEBREW_COUNTRY_SUFFIX, w)

\* default min_length of validate_location_extraction
DEFAULT_MIN_LENGTH == 3

validate_location_extraction(w, t, min_length, require_context) ==
    LET word_clean == Strip(w)
        word_base == Strip(strip_country_suffix(word_clean))
        m1 == re_search(Cat(<<WB, Lit(word_base), WB>>), t)
        m2 == re_search(Lit("ב" \o word_base), t)
        position == IF m1 # NoMatch THEN m1.start ELSE m2.start
    IN  IF is_blacklisted(word_base) THEN FALSE
        ELSE IF Len(word_base) < min_length THEN FALSE
        ELSE IF position = -1 THEN Found(COUNTRY_SUFFIX, word_clean)
        ELSE IF is_in_date_context(t, position) THEN FALSE
        ELSE IF is_in_person_name_context(t, position) THEN FALSE
        ELSE IF require_context THEN has_location_context_indicator(t, w)
        ELSE TRUE

\* word.split()[0]: the first whitespace-delimited token
first_token(w) ==
    LET s == LStrip(w)
        m == re_search(Cls(WhiteSpace), s)
    IN  IF m = NoMatch THEN s ELSE Slice(s, 0, m.start)

\* the word_base that is never split: the qualifier stays on the word
confidence_word_base_unsplit(w) == w

\* word_base of get_location_confidence
confidence_word_base(w) == IF Contains(w, " ") THEN first_token(w) ELSE w

\* r'(?:יוסף|משה|...)\s+(?:בן|בר|בת)\s+\w+'
person_name_pattern == Cat(<<
    Alt(<<Lit("יוסף"), Lit("משה"), Lit("דוד"), Lit("יעקב"), Lit("שמואל"), Lit("עזרא"),
          Lit("שלמה"), Lit("יהודה"), Lit("אברהם"), Lit("אלעזר"), Lit("יצחק"), Lit("לוי"),
          Lit("בנימין")>>),
    Sp, Alt(<<Lit("בן"), Lit("בר"), Lit("בת")>>), Sp, W1 >>)

\* confidences are counted in millionths: 1.0 is CONF_ONE
CONF_ONE       == 1000000
CONF_BASE      == 700000     \* 0.7
CONF_MULTIWORD == 150000     \* + 0.15
CONF_COUNTRY   == 200000     \* + 0.20

\* does the word occur within 30 characters of a "Name ben/bar/bat X" match?
near_person_name(w, t) ==
    LET ms == re_finditer(person_name_pattern, Lower(t))
    IN  \E n \in 1..Len(ms) :
            Contains(Lower(Slice(t, Max(0, ms[n].start - PERSON_WINDOW),
                                 ms[n].end + PERSON_WINDOW)),
                     Lower(confidence_word_base(w)))

\* confidence += bonus when the condition holds
boosted_if(condition, confidence, bonus) ==
    IF condition THEN confidence + bonus ELSE confidence

\* confidence *= num / den when the condition holds
scaled_if(condition, confidence, num, den) ==
    IF condition THEN (confidence * num) \div den ELSE confidence

\* confidence = min(1.0, confidence * 1.3) when the condition holds
raised_if(condition, confidence) ==
    IF condition THEN Min((confidence * 13) \div 10, CONF_ONE) ELSE confidence

\* the score of a word whose word_base is not blacklisted, before the final clamp
confidence_score(w, t, word_base) ==
    raised_if(has_location_context_indicator(t, w),
      scaled_if(is_in_person_name_context(t, str_find(t, word_base)),         \* * 0.15
        scaled_if(is_in_date_context(t, str_find(t, word_base)),              \* * 0.1
          scaled_if(near_person_name(w, t),                                   \* * 0.2
            boosted_if(Found(Cat(<<Lit("("), Plus(NCls({")"})), Lit(")")>>), w),
              boosted_if(Contains(w, " "), CONF_BASE, CONF_MULTIWORD),
              CONF_COUNTRY),
            1, 5),
          1, 10),
        3, 20))

\* the confidence returned as scored, without the final clamp
get_location_confidence_unclamped(w, t) ==
    IF is_blacklisted(confidence_word_base(w)) THEN 0
    ELSE confidence_score(w, t, confidence_word_base(w))

get_location_confidence(w, t) ==
    IF is_blacklisted(confidence_word_base(w)) THEN 0
    ELSE Max(0, Min(confidence_score(w, t, confidence_word_base(w)), CONF_ONE))

----------------------------------------------------------------------------
(* Calls of the pure functions: the arguments are drawn in the initial      *)
(* state, the call stores what the function returns.                        *)

\* the hybrid pipeline is not running
PipelineIdle ==
    /\ mode = None
    /\ requests_available = TRUE
    /\ manuscripts = <<>>
    /\ ms_index = 1
    /\ all_classified = <<>>
    /\ needs_ai = <<>>
    /\ job = NoJob
    /\ batch = NoBatch
    /\ chunks = <<>>
    /\ pattern_snapshot = <<>>
    /\ log = {}

pipeline_vars == <<mode, requests_available, manuscripts, ms_index, all_classified,
                   needs_ai, job, batch, chunks, pattern_snapshot, log>>

\* a gazetteer index: canonical names, and the dicts textual form -> canonical name
\* and variant -> canonical name
KimaIndex(places, textual_forms, variants) ==
    [places |-> places, textual_forms |-> textual_forms, variants |-> variants]

\* no gazetteer lookup and no entity construction is under way
ExtractorsIdle ==
    /\ kima = KimaIndex({}, <<>>, <<>>)
    /\ calls = 0
    /\ confidence_arg = 0

extractor_vars == <<kima, calls, confidence_arg>>

\* no pipeline run is being set up: no configuration, no data directory, nothing printed
SetupIdle ==
    /\ config = NoConfig
    /\ data_dir = Missing
    /\ warnings = <<>>

setup_vars == <<config, data_dir, warnings>>

TextsOver(V, n) == {JoinWords(ws) : ws \in SeqsUpTo(V, n)}

(* ---- classify_person_by_patterns ---- *)

\* longest text, in words, given to classify_person_by_patterns
MaxPersonWords == 2

PersonWords == {"משה", "נשלם", "כתב", "מחבר", "תרגם", "פירש", "צייר", "רשות",
                "העביר", "קנה", "מכר", "הקדיש", "קטלג", "צנזור", "ספר"}
PersonNames == {"משה", "דוד"}

InitPerson ==
    /\ pc = "call"
    /\ text \in TextsOver(PersonWords, MaxPersonWords)
    /\ word \in PersonNames
    /\ out = None
    /\ PipelineIdle
    /\ SetupIdle
    /\ ExtractorsIdle

CallClassifyPerson ==
    /\ pc = "call"
    /\ out' = classify_person_by_patterns(text, word)
    /\ pc' = "ret"
    /\ UNCHANGED <<text, word, pipeline_vars, extractor_vars, setup_vars>>

NextPerson == CallClassifyPerson

SpecPerson == InitPerson /\ [][NextPerson]_vars

(* ---- classify_location_by_patterns ---- *)

\* longest text, in words, given to classify_location_by_patterns
MaxLocWords == 3

LocWords == {"קנדיה", "בקנדיה", "דמשק", "(סוריה)", "נדפס", "ספריית"}
LocNames == {"קנדיה", "דמשק (סוריה)", "רומא"}

InitLocation ==
    /\ pc = "call"
    /\ text \in TextsOver(LocWords, MaxLocWords)
    /\ word \in LocNames
    /\ out = None
    /\ PipelineIdle
    /\ SetupIdle
    /\ ExtractorsIdle

CallClassifyLocation ==
    /\ pc = "call"
    /\ out' = classify_location_by_patterns(text, word)
    /\ pc' = "ret"
    /\ UNCHANGED <<text, word, pipeline_vars, extractor_vars, setup_vars>>

NextLocation == CallClassifyLocation

SpecLocation == InitLocation /\ [][NextLocation]_vars

(* ---- validate_location_extraction and get_location_confidence ---- *)

\* longest text, in words, given to the location validator
MaxValidatorWords == 2

ValidatorWords == {"דמשק", "בדמשק", "אדר", "שנת", "בן", "נכתב"}
ValidatorNames == {"דמשק (סוריה)", "דמשק (Syria)", "קנדיה (יוון)", "דמשק",
                   "אדר", "אדר (תימן)", "אדר(תימן)", "אדר א", "אב (תימן)",
                   "בית לחם (יהודה)"}

InitValidator ==
    /\ pc = "call"
    /\ text \in TextsOver(ValidatorWords, MaxValidatorWords)
    /\ word \in ValidatorNames
    /\ out = None
    /\ PipelineIdle
    /\ SetupIdle
    /\ ExtractorsIdle

\* validate_location_extraction(word, text) and get_location_confidence(word, text)
CallValidator ==
    /\ pc = "call"
    /\ out' = [valid |-> validate_location_extraction(word, text, DEFAULT_MIN_LENGTH, TRUE),
               confidence |-> get_location_confidence(word, text)]
    /\ pc' = "ret"
    /\ UNCHANGED <<text, word, pipeline_vars, extractor_vars, setup_vars>>

NextValidator == CallValidator

SpecValidator == InitValidator /\ [][NextValidator]_vars

----------------------------------------------------------------------------
(* Properties of the pattern classifiers and of the location validator *)

\* the location occurs in the text under one of the three search variants
FoundUnderVariant(t, location_name) ==
    LET base == Strip(strip_country_suffix(location_name))
    IN  \/ Contains(Lower(t), Lower("ב" \o base))
        \/ Contains(Lower(t), Lower(base))
        \/ Contains(Lower(t), Lower(location_name))

\* no primary family and no secondary heuristic of the classifier applies
NothingElseMatches(t, location_name) ==
    LET lowered == Lower(t)
    IN  /\ \A k \in 1..Len(ALL_LOCATION_PATTERNS) :
               ~ FamilyMatches(ALL_LOCATION_PATTERNS[k], lowered)
        /\ ~ Found(COLOPHON_CONTEXT, lowered)
        /\ ~ Found(PRESERVATION_CONTEXT, lowered)
        /\ ~ Found(PROVENANCE_CONTEXT, lowered)
        /\ ~ Found(RESIDENCE_CONTEXT, lowered)
        /\ ~ Found(LIST_FORMAT, t)
        /\ ~ Found(SUBJECT_CONTEXT, lowered)
        /\ Len(re_finditer(name_as_regex(location_name), lowered)) # 1
        /\ ~ AnyWordIn(<<"ספר", "כתב", "כתיבה", "כתיבת", "הדפס", "הדפסה", "דפוס", "print",
                         "מעתיק", "העתק", "העתקה", "copy">>, t)

PersonRoles == {ALL_PERSON_PATTERNS[k].role : k \in 1..Len(ALL_PERSON_PATTERNS)}

\* C8: classify_person_by_patterns returns no-match or one of the thirteen roles of
\* ALL_PERSON_PATTERNS, every one of them a member of PERSON_LABELS; never "" and never
\* a label outside PERSON_LABELS.
C8_PersonRoleInVocabulary ==
    /\ Cardinality(PersonRoles) = 13
    /\ pc = "ret" =>
          /\ out \in PersonRoles \cup {None}
          /\ out # ""
          /\ out # None => out \in PERSON_LABELS

\* a person found in the text has been given the role of the last family
C8_Witness ==
    /\ pc = "ret"
    /\ Contains(text, word)
    /\ out = "censor"

\* the word carries a parenthetical qualifier
HasQualifier(w) == Found(COUNTRY_SUFFIX, Strip(w))

C10_BlacklistForcesZero ==
    (pc = "ret" /\ is_blacklisted(Strip(strip_country_suffix(Strip(word))))) =>
        /\ out.valid = FALSE
        /\ out.confidence = 0

\* C17: get_location_confidence returns a value in [0,1] for every word and text: after
\* the boosts (+0.15, +0.20), the penalties (x0.2, x0.1, x0.15) and the x1.3 context
\* boost the returned value is never below 0 and never above 1.0.
C17_ConfidenceInUnitInterval ==
    pc = "ret" => (0 <= out.confidence /\ out.confidence <= CONF_ONE)

\* both boosts applied and no penalty: the score passed 1.0 and 1.0 was returned
C17_Witness ==
    /\ pc = "ret"
    /\ ~ is_blacklisted(confidence_word_base(word))
    /\ confidence_score(word, text, confidence_word_base(word)) > CONF_ONE
    /\ out.confidence = CONF_ONE

----------------------------------------------------------------------------
(* models/entities.py, extractors/text_extractors.py: entities of a manuscript *)

\* EntityType
EntityType == {"date", "location", "person", "work", "organization"}

ExtractedEntity(entity_type, value) == [entity_type |-> entity_type, value |-> value]

Person(name, patronymic) == [name |-> name, patronymic |-> patronymic]

\* the ghost field source tells which classifier the label came from
ClassifiedEntity(entity, label, source) ==
    [entity_type |-> entity.entity_type, value |-> entity.value,
     label |-> label, source |-> source]

\* re.sub(r'\s+', ' ', name.strip())
RECURSIVE CollapseSpaces(_)
CollapseSpaces(t) ==
    IF t = "" THEN ""
    ELSE IF Ch(t, 0) \in WhiteSpace
         THEN " " \o CollapseSpaces(LStrip(t))
         ELSE Ch(t, 0) \o CollapseSpaces(Slice(t, 1, Len(t)))

_normalize_hebrew_name(name) == CollapseSpaces(Strip(name))

\* [֐-׿]: the characters of the Hebrew block that texts use
HebrewBlock == HebLetters \cup Nikud

\* r"([֐-׿]{2,})\s+בן\s+([֐-׿]{2,})"
PATRONYMIC_PATTERN ==
    Cat(<<Cls(HebrewBlock), Plus(Cls(HebrewBlock)), Sp, Lit("בן"), Sp,
          Cls(HebrewBlock), Plus(Cls(HebrewBlock))>>)

\* group(1) of a match: the run of Hebrew characters up to the first whitespace
PatronymicGroup1(matched) == Slice(matched, 0, re_search(Cls(WhiteSpace), matched).start)

\* group(2) of a match: the run of Hebrew characters after the last whitespace
RECURSIVE PatronymicGroup2(_)
PatronymicGroup2(matched) ==
    LET m == re_search(Cls(WhiteSpace), matched)
    IN  IF m = NoMatch THEN matched
        ELSE PatronymicGroup2(Slice(matched, m.end, Len(matched)))

\* the persons of the first n matches, one per distinct full name
RECURSIVE PersonsOfMatches(_, _, _)
PersonsOfMatches(t, ms, n) ==
    IF n = 0 THEN <<>>
    ELSE LET before     == PersonsOfMatches(t, ms, n - 1)
             matched    == Slice(t, ms[n].start, ms[n].end)
             first_name == _normalize_hebrew_name(PatronymicGroup1(matched))
             father     == _normalize_hebrew_name(PatronymicGroup2(matched))
             person     == Person(first_name, father)
         IN  IF IsIn(person, before) THEN before ELSE Append(before, person)

extract_person_mentions(t) ==
    IF Strip(t) = "" THEN <<>>
    ELSE LET ms == re_finditer(PATRONYMIC_PATTERN, t)
         IN  PersonsOfMatches(t, ms, Len(ms))

\* extract_entities_from_text; dates and locations are what extract_dates and the
\* gazetteer lookup have found in the text
Manuscript(manuscript_id, notes_text, dates, locations) ==
    [manuscript_id |-> manuscript_id,
     notes_text    |-> notes_text,
     dates         |-> [k \in 1..Len(dates) |-> ExtractedEntity("date", dates[k])],
     locations     |-> [k \in 1..Len(locations) |-> ExtractedEntity("location", locations[k])],
     persons       |-> extract_person_mentions(notes_text)]

----------------------------------------------------------------------------
(* classification/grok_classifier.py: GrokClassifier *)

get_labels_for_entity_type(entity_type) ==
    IF entity_type = "date" THEN DATE_LABELS
    ELSE IF entity_type = "location" THEN LOCATION_LABELS
    ELSE IF entity_type = "person" THEN PERSON_LABELS
    ELSE {}

\* attempts of one chunk call: GrokClassifier(retries=3)
Retries == 3

\* GrokClassifier(chunk_size=...): values sent in one chunk call
ChunkSize == 1

\* GrokClassifier(max_workers=...): chunk calls running at the same time
MaxWorkers == 2

\* Python's truth value of a label
Truthy(label) == label # None /\ label # ""

(* A dict is the sequence of its entries in insertion order; an entry of a   *)
(* result dict carries the ghost field source of its label.                  *)
DictKeys(d) == {d[n].key : n \in 1..Len(d)}

DictGet(d, k) == d[CHOOSE n \in 1..Len(d) : d[n].key = k]

\* d[entry.key] = entry
DictSet(d, entry) ==
    IF entry.key \in DictKeys(d)
    THEN [n \in 1..Len(d) |-> IF d[n].key = entry.key THEN entry ELSE d[n]]
    ELSE Append(d, entry)

\* d.update(other)
RECURSIVE DictUpdate(_, _)
DictUpdate(d, other) ==
    IF other = <<>> THEN d
    ELSE DictUpdate(DictSet(d, Head(other)), Tail(other))

\* f[k] = v for a dict kept as a function
DictPut(f, k, v) == [x \in DOMAIN f \cup {k} |-> IF x = k THEN v ELSE f[x]]

\* the orders in which list({...}) may enumerate a set
Orders(S) == {o \in [1..Cardinality(S) -> S] : \A a, b \in 1..Cardinality(S) : o[a] = o[b] => a = b}

RECURSIVE classify_persons_batch(_, _)
classify_persons_batch(t, person_names) ==
    IF person_names = <<>> THEN <<>>
    ELSE LET n == Len(person_names)
         IN  DictSet(classify_persons_batch(t, SubSeq(person_names, 1, n - 1)),
                     [key |-> person_names[n],
                      label |-> classify_person_by_patterns(t, person_names[n]),
                      source |-> "pattern"])

_group_by_type(entities) ==
    LET types == Dedup([n \in 1..Len(entities) |-> entities[n].entity_type])
    IN  [g \in 1..Len(types) |->
            [entity_type |-> types[g],
             entities |-> SelectSeq(entities, LAMBDA e : e.entity_type = types[g])]]

\* the split that puts every item into one chunk, whatever the chunk size
_create_chunks_unbounded(items, chunk_size) ==
    IF items = <<>> THEN <<>> ELSE <<items>>

_create_chunks(items, chunk_size) ==
    [c \in 1..((Len(items) + chunk_size - 1) \div chunk_size) |->
        SubSeq(items, (c - 1) * chunk_size + 1, Min(c * chunk_size, Len(items)))]

\* the reply that keeps every entry, whatever its label
validate_results_unfiltered(mapping, labels) == mapping

\* {k: v for k, v in mapping.items() if v in labels}
validate_results(mapping, labels) == SelectSeq(mapping, LAMBDA e : e.label \in labels)

\* the status of a chunk call after its attempt number `attempt` (0-based) has failed
after_failed_attempt(attempt) == IF attempt = Retries - 1 THEN "finished" ELSE "running"

DictKeySeq(d) == [n \in 1..Len(d) |-> d[n].key]

\* unclassified_values: the persons without a pattern role, every value of another type
unclassified_values_of(entity_type, unique_values, pattern_results) ==
    IF entity_type = "person"
    THEN DictKeySeq(SelectSeq(pattern_results, LAMBDA e : ~ Truthy(e.label)))
    ELSE unique_values

\* the locals of _classify_batch when its chunks are submitted
batch_locals(entities, entity_type, unique_values, pattern_results) ==
    [entity_type     |-> entity_type,
     entity_map      |-> {entities[n].value : n \in 1..Len(entities)},
     pattern_results |-> pattern_results,
     all_results     |-> pattern_results,
     submitted       |-> _create_chunks(unclassified_values_of(entity_type, unique_values,
                                                               pattern_results),
                                        ChunkSize)]

\* STEP 1 and the submission of _classify_batch
begin_classify_batch(t, entities, entity_type, unique_values) ==
    batch_locals(entities, entity_type, unique_values,
                 IF entity_type = "person"
                 THEN classify_persons_batch(t, unique_values) ELSE <<>>)

\* STEP 3 of _classify_batch
build_classified(all_results, entity_map, entity_type) ==
    LET kept == SelectSeq(all_results, LAMBDA e : Truthy(e.label) /\ e.key \in entity_map)
    IN  [n \in 1..Len(kept) |->
            ClassifiedEntity(ExtractedEntity(entity_type, kept[n].key),
                             kept[n].label, kept[n].source)]

----------------------------------------------------------------------------
(* pipeline.py: classify_entities_hybrid and classify_entities *)

has_entities(ms) == ms.dates # <<>> \/ ms.locations # <<>> \/ ms.persons # <<>>

person_entities(ms) ==
    [k \in 1..Len(ms.persons) |-> ExtractedEntity("person", ms.persons[k].name)]

\* every person and location with what the pattern classifier says of it
pattern_roles(ms) ==
    [k \in 1..Len(ms.persons) |->
        [entity |-> ExtractedEntity("person", ms.persons[k].name),
         role   |-> classify_person_by_patterns(ms.notes_text, ms.persons[k].name)]]
    \o
    [k \in 1..Len(ms.locations) |->
        [entity |-> ms.locations[k],
         role   |-> classify_location_by_patterns(ms.notes_text, ms.locations[k].value)]]

hybrid_classified(tried) ==
    LET matched == SelectSeq(tried, LAMBDA r : Truthy(r.role))
    IN  [n \in 1..Len(matched) |-> ClassifiedEntity(matched[n].entity, matched[n].role, "pattern")]

\* the arbiter that sends every entity to the AI, pattern-labelled or not
hybrid_submit_everything(tried, dates) == [n \in 1..Len(tried) |-> tried[n].entity] \o dates

\* the arbiter that leaves the dates out of what it sends to the AI
hybrid_unclassified_without_dates(tried, dates) ==
    LET unmatched == SelectSeq(tried, LAMBDA r : ~ Truthy(r.role))
    IN  [n \in 1..Len(unmatched) |-> unmatched[n].entity]

\* unclassified_entities of one manuscript
hybrid_unclassified(tried, dates) ==
    LET unmatched == SelectSeq(tried, LAMBDA r : ~ Truthy(r.role))
    IN  [n \in 1..Len(unmatched) |-> unmatched[n].entity] \o dates

\* the merge that stores the AI list in place of what the manuscript had
merge_ai_replacing(classified_map, manuscript_id, ai_classified) ==
    DictPut(classified_map, manuscript_id, ai_classified)

\* the merge of the AI list of one manuscript into all_classified
merge_ai(classified_map, manuscript_id, ai_classified) ==
    IF ai_classified = <<>> THEN classified_map
    ELSE IF manuscript_id \in DOMAIN classified_map
         THEN DictPut(classified_map, manuscript_id,
                      classified_map[manuscript_id] \o ai_classified)
         ELSE DictPut(classified_map, manuscript_id, ai_classified)

\* every entity value of a manuscript
manuscript_values(ms) ==
    {ms.persons[k].name : k \in 1..Len(ms.persons)}
    \cup {ms.locations[k].value : k \in 1..Len(ms.locations)}
    \cup {ms.dates[k].value : k \in 1..Len(ms.dates)}

\* the classify_entities call of the classifier, as it starts
NewJob(manuscript_id, t, entities, values) ==
    [manuscript_id |-> manuscript_id, text |-> t, groups |-> _group_by_type(entities),
     g |-> 1, classified |-> <<>>, values |-> values]

----------------------------------------------------------------------------
(* The classification run: manuscripts, AI replies, and the steps of the run *)

\* 21 words that no pattern family reads: 104 characters between two persons
Filler == JoinWords([n \in 1..21 |-> "עמוד"])

\* no entity at all
MsEmpty == Manuscript("ms0", "עמוד", <<>>, <<>>)
\* two persons who share their first name, both read as scribes
MsNamesakes == Manuscript("ms1", "כתב משה בן יצחק משה בן דוד", <<>>, <<>>)
\* a scribe, and a person too far from the verb for any pattern
MsScribeAndOther == Manuscript("ms2", "כתב משה בן יצחק " \o Filler \o " דוד בן אהרן", <<>>, <<>>)
\* a place the patterns read, a place found only under its gazetteer name, two dates
MsPlacesDates == Manuscript("ms3", "נכתב בדמשק קושטא 1450 1460",
                            <<"1450", "1460">>, <<"דמשק", "איסטנבול">>)

\* the input lists of the run
Runs == {<<MsEmpty, MsNamesakes>>, <<MsNamesakes, MsScribeAndOther>>,
         <<MsScribeAndOther, MsPlacesDates>>}

\* the input lists of the runs of classify_entities (pipeline.py), which sends every
\* entity of a manuscript to the classifier
PlainRuns == {<<MsEmpty, MsNamesakes>>, <<MsNamesakes, MsScribeAndOther>>, <<MsPlacesDates>>}

\* the arguments of a direct call of GrokClassifier.classify_entities
DirectCalls ==
    {[text |-> "ספר 1450",
      entities |-> <<ExtractedEntity("work", "ספר"), ExtractedEntity("date", "1450")>>]}

\* entries of one AI reply
MaxReplyEntries == 1

\* a value that no entity of any manuscript has
FOREIGN_VALUE == "פלוני"

\* the labels an AI reply gives: each is in the label set of exactly one entity type
REPLY_LABELS == {"copying date", "mentioned place", "mentioned person"}

\* the JSON objects of at most MaxReplyEntries entries over the given keys
\* the labels of the replies to a batch call: two of them are date labels, so that two
\* replies can disagree about a date
ReplyLabels == IF mode = "batch" THEN REPLY_LABELS \cup {"printing date"} ELSE REPLY_LABELS

Replies(keys) ==
    LET entries == {[key |-> k, label |-> l, source |-> "ai"] : k \in keys, l \in ReplyLabels}
        seqs    == {<<>>} \cup SeqsUpTo(entries, MaxReplyEntries)
    IN  {m \in seqs : \A a, b \in 1..Len(m) : m[a].key = m[b].key => a = b}

Init ==
    /\ text = ""
    /\ word = ""
    /\ out = None
    /\ mode \in {"hybrid", "plain", "direct"}
    /\ requests_available \in BOOLEAN
    /\ manuscripts \in (IF mode = "direct" THEN {<<>>}
                        ELSE IF mode = "plain" THEN PlainRuns ELSE Runs)
    /\ ms_index = 1
    /\ all_classified = <<>>
    /\ needs_ai = <<>>
    /\ pc = (IF mode = "hybrid" THEN "patterns" ELSE mode)
    /\ job \in (IF mode = "direct"
                THEN {NewJob("direct", c.text, c.entities,
                             {c.entities[n].value : n \in 1..Len(c.entities)})
                      : c \in DirectCalls}
                ELSE {NoJob})
    /\ batch = NoBatch
    /\ chunks = <<>>
    /\ pattern_snapshot = <<>>
    /\ log = {}
    /\ ExtractorsIdle
    /\ SetupIdle

harness_vars == <<text, word, out, extractor_vars, setup_vars>>

\* all_classified and needs_ai_classification after the pattern loop has handled ms
after_patterns(classified_map, needing, ms, classified_entities, unclassified_entities) ==
    [all_classified |->
        IF has_entities(ms) /\ classified_entities # <<>>
        THEN DictPut(classified_map, ms.manuscript_id, classified_entities)
        ELSE classified_map,
     needs_ai |->
        IF has_entities(ms) /\ unclassified_entities # <<>>
        THEN Append(needing, [ms |-> ms, unclassified |-> unclassified_entities])
        ELSE needing]

pattern_iteration(classified_map, needing, ms, tried) ==
    after_patterns(classified_map, needing, ms,
                   hybrid_classified(tried), hybrid_unclassified(tried, ms.dates))

\* the loop goes on to the next manuscript, or phase 1 ends
PatternStep(after) ==
    /\ all_classified' = after.all_classified
    /\ needs_ai' = after.needs_ai
    /\ IF ms_index < Len(manuscripts)
       THEN /\ ms_index' = ms_index + 1
            /\ pc' = "patterns"
            /\ pattern_snapshot' = pattern_snapshot
       ELSE /\ ms_index' = 1
            /\ pc' = (IF after.needs_ai = <<>> THEN "done" ELSE "ai")
            /\ pattern_snapshot' = after.all_classified

\* classify_entities_hybrid, phase 1: one manuscript of the pattern loop
PatternPhase ==
    /\ pc = "patterns"
    /\ ms_index <= Len(manuscripts)
    /\ PatternStep(pattern_iteration(all_classified, needs_ai, manuscripts[ms_index],
                                     pattern_roles(manuscripts[ms_index])))
    /\ UNCHANGED <<harness_vars, mode, requests_available, manuscripts, job, batch, chunks, log>>

\* classify_entities (pipeline.py), one manuscript of the loop: skip it or call the classifier
PlainIteration ==
    /\ pc = "plain"
    /\ job = NoJob
    /\ ms_index <= Len(manuscripts)
    /\ LET ms == manuscripts[ms_index]
       IN  IF has_entities(ms)
           THEN /\ job' = NewJob(ms.manuscript_id, ms.notes_text,
                                 ms.dates \o ms.locations \o person_entities(ms),
                                 manuscript_values(ms))
                /\ UNCHANGED <<ms_index, pc>>
           ELSE /\ job' = NoJob
                /\ ms_index' = ms_index + 1
                /\ pc' = (IF ms_index < Len(manuscripts) THEN "plain" ELSE "done")
    /\ UNCHANGED <<harness_vars, mode, requests_available, manuscripts, all_classified,
                   needs_ai, batch, chunks, pattern_snapshot, log>>

\* classify_entities_hybrid, phase 2: classifier.classify_entities(ms.notes_text, unclassified)
CallClassifyEntities ==
    /\ pc = "ai"
    /\ job = NoJob
    /\ ms_index <= Len(needs_ai)
    /\ LET need == needs_ai[ms_index]
       IN  job' = NewJob(need.ms.manuscript_id, need.ms.notes_text, need.unclassified,
                         manuscript_values(need.ms))
    /\ UNCHANGED <<harness_vars, pc, mode, requests_available, manuscripts, ms_index,
                   all_classified, needs_ai, batch, chunks, pattern_snapshot, log>>

\* the batch holds its locals, every submitted chunk call is queued
SubmitChunks(b) ==
    /\ batch' = [x \in DOMAIN b \ {"submitted"} |-> b[x]]
    /\ chunks' = [c \in 1..Len(b.submitted) |->
                     [items |-> b.submitted[c], status |-> "queued",
                      attempt |-> 0, result |-> <<>>, outcome |-> None]]

\* _classify_batch up to the submission of its chunks to the executor
StartBatch ==
    /\ job # NoJob
    /\ batch = NoBatch
    /\ job.g <= Len(job.groups)
    /\ \E unique_values \in Orders({job.groups[job.g].entities[n].value :
                                      n \in 1..Len(job.groups[job.g].entities)}) :
           SubmitChunks(begin_classify_batch(job.text, job.groups[job.g].entities,
                                             job.groups[job.g].entity_type, unique_values))
    /\ UNCHANGED <<harness_vars, pc, mode, requests_available, manuscripts, ms_index,
                   all_classified, needs_ai, job, pattern_snapshot, log>>

\* the history entry of a finished chunk call; the attempts are counted for the calls
\* that were abandoned
LogEntry(c, attempts, outcome) ==
    [manuscript_id |-> job.manuscript_id, entity_type |-> batch.entity_type,
     items |-> chunks[c].items, attempts |-> attempts, outcome |-> outcome]

\* a free worker of the executor starts the oldest queued chunk call; without the
\* requests library the call returns {} at once
WorkerTakesChunk ==
    /\ batch # NoBatch
    /\ \E c \in 1..Len(chunks) :
        /\ chunks[c].status = "queued"
        /\ \A d \in 1..(c - 1) : chunks[d].status # "queued"
        /\ Cardinality({d \in 1..Len(chunks) : chunks[d].status = "running"}) < MaxWorkers
        /\ IF requests_available
           THEN /\ chunks' = [chunks EXCEPT ![c].status = "running"]
                /\ log' = log
           ELSE /\ chunks' = [chunks EXCEPT ![c].status = "finished",
                                            ![c].outcome = "no requests"]
                /\ log' = log \cup {LogEntry(c, 0, "no requests")}
    /\ UNCHANGED <<harness_vars, pc, mode, requests_available, manuscripts, ms_index,
                   all_classified, needs_ai, job, batch, pattern_snapshot>>

\* one attempt of _classify_chunk: the request fails, or the reply is no JSON object,
\* or it is a JSON object, which is filtered and returned (the attempt counter is a
\* local of the call and is gone with it)
ChunkAttempt ==
    /\ batch # NoBatch
    /\ \E c \in 1..Len(chunks) :
        /\ chunks[c].status = "running"
        /\ chunks[c].attempt < Retries
        /\ \/ \E failure \in {"exception", "not a dict"} :
                LET status == after_failed_attempt(chunks[c].attempt)
                IN  /\ chunks' = [chunks EXCEPT ![c].attempt = @ + 1,
                                                ![c].status = status,
                                                ![c].outcome = IF status = "finished"
                                                               THEN "abandoned" ELSE None]
                    /\ log' = IF status = "finished"
                              THEN log \cup {LogEntry(c, chunks[c].attempt + 1, "abandoned")}
                              ELSE log
           \/ \E mapping \in Replies(job.values \cup {FOREIGN_VALUE}) :
                /\ chunks' = [chunks EXCEPT ![c].attempt = 0,
                                            ![c].status = "finished",
                                            ![c].outcome = "answered",
                                            ![c].result = validate_results(mapping,
                                                     get_labels_for_entity_type(batch.entity_type))]
                /\ log' = log \cup {LogEntry(c, 0, "answered")}
    /\ UNCHANGED <<harness_vars, pc, mode, requests_available, manuscripts, ms_index,
                   all_classified, needs_ai, job, batch, pattern_snapshot>>

\* as_completed yields a finished chunk call: all_results.update(result)
CollectResult ==
    /\ batch # NoBatch
    /\ \E c \in 1..Len(chunks) :
        /\ chunks[c].status = "finished"
        /\ batch' = [batch EXCEPT !.all_results = DictUpdate(@, chunks[c].result)]
        /\ chunks' = [chunks EXCEPT ![c].status = "merged"]
    /\ UNCHANGED <<harness_vars, pc, mode, requests_available, manuscripts, ms_index,
                   all_classified, needs_ai, job, pattern_snapshot, log>>

\* STEP 3 of _classify_batch and the return into GrokClassifier.classify_entities
FinishBatch ==
    /\ batch # NoBatch
    /\ \A c \in 1..Len(chunks) : chunks[c].status = "merged"
    /\ job' = [job EXCEPT !.classified = @ \o build_classified(batch.all_results,
                                                                batch.entity_map,
                                                                batch.entity_type),
                          !.g = @ + 1]
    /\ batch' = NoBatch
    /\ chunks' = <<>>
    /\ UNCHANGED <<harness_vars, pc, mode, requests_available, manuscripts, ms_index,
                   all_classified, needs_ai, pattern_snapshot, log>>

\* GrokClassifier.classify_entities returns and its caller stores the list
ReturnClassified ==
    /\ job # NoJob
    /\ batch = NoBatch
    /\ job.g > Len(job.groups)
    /\ job' = NoJob
    /\ IF mode = "hybrid"
       THEN /\ all_classified' = merge_ai(all_classified, job.manuscript_id, job.classified)
            /\ ms_index' = ms_index + 1
            /\ pc' = (IF ms_index < Len(needs_ai) THEN "ai" ELSE "done")
            /\ out' = out
       ELSE IF mode = "plain"
       THEN /\ all_classified' = (IF job.classified # <<>>
                                  THEN DictPut(all_classified, job.manuscript_id, job.classified)
                                  ELSE all_classified)
            /\ ms_index' = ms_index + 1
            /\ pc' = (IF ms_index < Len(manuscripts) THEN "plain" ELSE "done")
            /\ out' = out
       ELSE /\ out' = job.classified
            /\ pc' = "done"
            /\ UNCHANGED <<all_classified, ms_index>>
    /\ UNCHANGED <<text, word, extractor_vars, setup_vars, mode, requests_available, manuscripts,
                   needs_ai, batch, chunks, pattern_snapshot, log>>

Next ==
    \/ PatternPhase
    \/ PlainIteration
    \/ CallClassifyEntities
    \/ StartBatch
    \/ WorkerTakesChunk
    \/ ChunkAttempt
    \/ CollectResult
    \/ FinishBatch
    \/ ReturnClassified

Spec == Init /\ [][Next]_vars

----------------------------------------------------------------------------
(* Properties of the classification run *)

\* the classified-entity list of a manuscript in the output map
ClassifiedOf(manuscript_id) ==
    IF manuscript_id \in DOMAIN all_classified THEN all_classified[manuscript_id] ELSE <<>>

\* the classified-entity list of a manuscript when the pattern phase ended
SnapshotOf(manuscript_id) ==
    IF manuscript_id \in DOMAIN pattern_snapshot THEN pattern_snapshot[manuscript_id] ELSE <<>>

\* the input entities of a manuscript
InputEntities(ms) ==
    {ExtractedEntity("person", ms.persons[k].name) : k \in 1..Len(ms.persons)}
    \cup {ms.locations[k] : k \in 1..Len(ms.locations)}
    \cup {ms.dates[k] : k \in 1..Len(ms.dates)}

SameEntity(record, entity) ==
    record.entity_type = entity.entity_type /\ record.value = entity.value

LabelledBy(records, entity, source) ==
    \E n \in 1..Len(records) : SameEntity(records[n], entity) /\ records[n].source = source

Unlabelled(records, entity) ==
    \A n \in 1..Len(records) : ~ SameEntity(records[n], entity)

\* the classes an entity is in: pattern-labelled, AI-labelled, unclassified
ClassesOf(records, entity) ==
    {c \in {"pattern", "ai"} : LabelledBy(records, entity, c)}
    \cup (IF Unlabelled(records, entity) THEN {"unclassified"} ELSE {})

\* C1: in a hybrid run every input entity of every manuscript is in exactly one of the
\* classes pattern-labelled, AI-labelled, unclassified, and every classified entity of
\* the manuscript is one of its input entities.
C1_StrictPartition ==
    mode = "hybrid" =>
        \A k \in 1..Len(manuscripts) :
            /\ \A e \in InputEntities(manuscripts[k]) :
                   Cardinality(ClassesOf(ClassifiedOf(manuscripts[k].manuscript_id), e)) = 1
            /\ \A n \in 1..Len(ClassifiedOf(manuscripts[k].manuscript_id)) :
                   \E e \in InputEntities(manuscripts[k]) :
                       SameEntity(ClassifiedOf(manuscripts[k].manuscript_id)[n], e)

\* a finished hybrid run with one place labelled by the patterns, one by the AI and a
\* date left unclassified
C1_Witness ==
    /\ mode = "hybrid"
    /\ pc = "done"
    /\ LabelledBy(ClassifiedOf("ms3"), ExtractedEntity("location", "דמשק"), "pattern")
    /\ LabelledBy(ClassifiedOf("ms3"), ExtractedEntity("location", "איסטנבול"), "ai")
    /\ Unlabelled(ClassifiedOf("ms3"), ExtractedEntity("date", "1450"))

\* the pattern records of a manuscript are in its list, and no record of the same entity
\* has another label
PatternRecordsKept(before, now) ==
    \A n \in 1..Len(before) :
        /\ IsIn(before[n], now)
        /\ \A m \in 1..Len(now) :
               SameEntity(now[m], before[n]) => now[m].label = before[n].label

\* C2: a label assigned by the pattern classifier is never replaced by a label of an AI
\* reply, in _classify_batch (the result of a value that has a pattern role keeps that
\* role) and in classify_entities_hybrid (the pattern records of a manuscript stay).
C2_PatternLabelKept ==
    /\ batch # NoBatch =>
          \A n \in 1..Len(batch.pattern_results) :
              Truthy(batch.pattern_results[n].label) =>
                  DictGet(batch.all_results, batch.pattern_results[n].key).label
                      = batch.pattern_results[n].label
    /\ (mode = "hybrid" /\ pc \in {"ai", "done"}) =>
          \A id \in DOMAIN pattern_snapshot :
              PatternRecordsKept(pattern_snapshot[id], ClassifiedOf(id))

AILabelsAllowed(records) ==
    \A n \in 1..Len(records) :
        records[n].source = "ai" =>
            records[n].label \in get_labels_for_entity_type(records[n].entity_type)

ReturnedFor(manuscript_id) ==
    IF mode = "direct" THEN out ELSE ClassifiedOf(manuscript_id)

\* C4: a chunk call whose attempts all fail makes exactly `retries` attempts and returns
\* an empty mapping, and at the end of the run the values of that chunk are absent from
\* the classified entities of their manuscript.
C4_FailedChunkAbsent ==
    /\ \A e \in log : e.outcome = "abandoned" => e.attempts = Retries
    /\ \A c \in 1..Len(chunks) :
          /\ chunks[c].status = "running" => chunks[c].attempt < Retries
          /\ chunks[c].outcome = "abandoned" =>
                 chunks[c].attempt = Retries /\ chunks[c].result = <<>>
    /\ pc = "done" =>
          \A e \in log :
              e.outcome = "abandoned" =>
                  \A n \in 1..Len(e.items) :
                      Unlabelled(ReturnedFor(e.manuscript_id),
                                 ExtractedEntity(e.entity_type, e.items[n]))

\* every chunk call made for the manuscript failed
AllCallsFailed(manuscript_id) ==
    /\ \E e \in log : e.manuscript_id = manuscript_id
    /\ \A e \in log : e.manuscript_id = manuscript_id => e.outcome # "answered"

\* some step of the hybrid run is possible: a manuscript is left for the pattern phase or
\* for the AI phase, a classifier call can start a batch or return, or a chunk call of
\* the batch can start, make an attempt, be collected, or all of them are collected
RunCanStep ==
    \/ pc = "patterns" /\ ms_index <= Len(manuscripts)
    \/ pc = "ai" /\ job = NoJob /\ ms_index <= Len(needs_ai)
    \/ job # NoJob /\ batch = NoBatch
    \/ /\ batch # NoBatch
       /\ \/ \A c \in 1..Len(chunks) : chunks[c].status = "merged"
          \/ \E c \in 1..Len(chunks) :
                \/ chunks[c].status = "finished"
                \/ chunks[c].status = "running" /\ chunks[c].attempt < Retries
                \/ /\ chunks[c].status = "queued"
                   /\ Cardinality({d \in 1..Len(chunks) : chunks[d].status = "running"})
                          < MaxWorkers

\* C5: when all AI calls of a manuscript fail, a hybrid run ends with every manuscript
\* handled and with the classifications of that manuscript exactly as the pattern phase
\* left them; before its end the run can always take a step.
C5_PatternsSurviveFailure ==
    /\ (mode = "hybrid" /\ pc = "done") =>
          /\ ms_index > Len(needs_ai)
          /\ \A k \in 1..Len(needs_ai) :
                AllCallsFailed(needs_ai[k].ms.manuscript_id) =>
                    /\ ClassifiedOf(needs_ai[k].ms.manuscript_id)
                           = SnapshotOf(needs_ai[k].ms.manuscript_id)
                    /\ (needs_ai[k].ms.manuscript_id \in DOMAIN all_classified)
                           <=> (needs_ai[k].ms.manuscript_id \in DOMAIN pattern_snapshot)
    /\ (mode = "hybrid" /\ pc # "done") => RunCanStep

\* a finished hybrid run: every AI call of ms2 failed and its scribe is still there,
\* while a date of ms3 was labelled by the AI
C5_Witness ==
    /\ mode = "hybrid"
    /\ pc = "done"
    /\ AllCallsFailed("ms2")
    /\ LabelledBy(ClassifiedOf("ms2"), ExtractedEntity("person", "משה"), "pattern")
    /\ ClassifiedOf("ms2") = SnapshotOf("ms2")
    /\ LabelledBy(ClassifiedOf("ms3"), ExtractedEntity("date", "1460"), "ai")

\* C6: the classified-entity list that a hybrid run returns for a manuscript never holds
\* two records with the same entity type and value.
C6_OneRecordPerValue ==
    mode = "hybrid" =>
        \A id \in DOMAIN all_classified :
            \A a, b \in 1..Len(all_classified[id]) :
                SameEntity(all_classified[id][a], all_classified[id][b]) => a = b

----------------------------------------------------------------------------
(* io/kima_loader.py: KimaGazetteer *)

\* the Hebrew prefixes that _strip_prefixes knows
HEBREW_PREFIXES == {"ב", "ל", "מ", "ה", "ו", "כ", "ש"}

\* the stripping that has no length guard: one prefix off whatever remains
strip_prefixes_unguarded(t) ==
    IF t # "" /\ Ch(t, 0) \in HEBREW_PREFIXES THEN Slice(t, 1, Len(t)) ELSE t

\* KimaGazetteer._strip_prefixes: one prefix, or two when enough remains
_strip_prefixes(t) ==
    IF Len(t) > 2 /\ Ch(t, 0) \in HEBREW_PREFIXES
    THEN IF Len(t) - 1 > 1 /\ Ch(t, 1) \in HEBREW_PREFIXES /\ Len(t) - 1 > 2
         THEN Slice(t, 2, Len(t))
         ELSE Slice(t, 1, Len(t))
    ELSE t

\* self.places[canonical], and the record that stands for "no place data"
PlaceData(canonical) == [hebrew |-> canonical]
NoPlace == [hebrew |-> None]

\* canonical name that the dict d gives for t, if it is a key of self.places
ViaDict(k, d, t) == t \in DOMAIN d /\ d[t] \in k.places

\* the direct stages with the variant asked before the textual form
lookup_direct_variants_first(k, t) ==
    IF t \in k.places THEN PlaceData(t)
    ELSE IF ViaDict(k, k.variants, t) THEN PlaceData(k.variants[t])
    ELSE IF ViaDict(k, k.textual_forms, t) THEN PlaceData(k.textual_forms[t])
    ELSE NoPlace

\* stages 1-3 of lookup: master gazetteer, textual form, variant
lookup_direct(k, t) ==
    IF t \in k.places THEN PlaceData(t)
    ELSE IF ViaDict(k, k.textual_forms, t) THEN PlaceData(k.textual_forms[t])
    ELSE IF ViaDict(k, k.variants, t) THEN PlaceData(k.variants[t])
    ELSE NoPlace

RECURSIVE lookup(_, _)
RECURSIVE lookup_stripped(_, _, _)

\* the lookup whose stage 4 gives up without trying the stripped text
lookup_without_fallback(k, t, stripped) == NoPlace

\* stage 4 of lookup: the recursive call on the stripped text
lookup_stripped(k, t, stripped) ==
    IF stripped # t THEN lookup(k, stripped) ELSE NoPlace

\* KimaGazetteer.lookup
lookup(k, t) ==
    IF lookup_direct(k, t) # NoPlace THEN lookup_direct(k, t)
    ELSE lookup_stripped(k, t, _strip_prefixes(t))

(* ---- calls of KimaGazetteer.lookup ---- *)

\* prefixes put before a base name in the texts given to lookup
MaxLookupPrefixes == 3

\* canonical names in one gazetteer
MaxPlaces == 2

LookupBases    == {"צרים", "בל", "רומא"}
LookupPrefixes == {"ב", "ו", "מ"}

RECURSIVE Prefixed(_, _)
\* the strings of S with at most n of the prefixes before them
Prefixed(S, n) ==
    IF n = 0 THEN S
    ELSE S \cup {p \o x : p \in LookupPrefixes, x \in Prefixed(S, n - 1)}

LookupTexts == Prefixed(LookupBases, MaxLookupPrefixes)

PlaceNames == {"מצרים", "צרים", "בבל", "רומא"}

\* dicts of the index: a form that names a place, a form whose place may be missing
TextualFormDicts == {<<>>, [x \in {"במצרים"} |-> "מצרים"], [x \in {"ורומא"} |-> "בבל"]}
VariantDicts     == {<<>>, [x \in {"בל"} |-> "בבל"]}

Gazetteers ==
    {KimaIndex(P, f, v) : P \in {Q \in SUBSET PlaceNames : Cardinality(Q) <= MaxPlaces},
                          f \in TextualFormDicts, v \in VariantDicts}

InitLookup ==
    /\ pc = "call"
    /\ text \in LookupTexts
    /\ word = text
    /\ out = NoPlace
    /\ kima \in Gazetteers
    /\ calls = 0
    /\ confidence_arg = 0
    /\ PipelineIdle
    /\ SetupIdle

\* one call of lookup on word: it returns what stages 1-3 find, or calls itself on the
\* stripped text, or returns None; what the inner call returns the outer calls return
LookupCall ==
    /\ pc = "call"
    /\ IF lookup_direct(kima, word) # NoPlace
       THEN /\ out' = lookup_direct(kima, word)
            /\ pc' = "ret"
            /\ UNCHANGED <<word, calls>>
       ELSE IF _strip_prefixes(word) # word
       THEN /\ word' = _strip_prefixes(word)
            /\ calls' = calls + 1
            /\ UNCHANGED <<out, pc>>
       ELSE /\ out' = NoPlace
            /\ pc' = "ret"
            /\ UNCHANGED <<word, calls>>
    /\ UNCHANGED <<text, kima, confidence_arg, pipeline_vars, setup_vars>>

NextLookup == LookupCall

\* a call that has been made runs on: nothing else is scheduled against it
SpecLookup == InitLookup /\ [][NextLookup]_vars /\ WF_vars(NextLookup)

\* C11 as stated: whenever stripping changes x, lookup(strip(x)) equals lookup(x), also
\* when x itself is a canonical name, a textual form or a variant of the index.
C11_StrippedLookupAgrees ==
    (pc = "ret" /\ _strip_prefixes(text) # text) =>
        lookup(kima, _strip_prefixes(text)) = out

\* C11 amended: whenever stripping changes x and x is resolved by none of the direct
\* stages (canonical name, textual form, variant), lookup(strip(x)) equals lookup(x).
C11_StrippedLookupAgreesWhenUnresolved ==
    (pc = "ret" /\ _strip_prefixes(text) # text /\ lookup_direct(kima, text) = NoPlace) =>
        /\ lookup(kima, _strip_prefixes(text)) = out
        /\ lookup(kima, text) = out

\* a text that only the prefix stripping resolves has been looked up
C11_Witness ==
    /\ pc = "ret"
    /\ _strip_prefixes(text) # text
    /\ lookup_direct(kima, text) = NoPlace
    /\ out # NoPlace
    /\ calls > 0

\* C12: lookup terminates: every recursive call is made on a strictly shorter text, a
\* call on fewer than 3 characters makes no recursive call, and the recursive calls of
\* one lookup are at most len(x).
C12_LookupTerminates ==
    /\ [](calls <= Len(text))
    /\ [][/\ word' # word => Len(word') < Len(word)
          /\ calls' # calls => (word' # word /\ calls' = calls + 1)
          /\ (pc = "call" /\ Len(word) < 3) => pc' = "ret"]_vars
    /\ <>[](pc = "ret")

\* a lookup that called itself twice has returned
C12_Witness ==
    /\ pc = "ret"
    /\ calls = 2
    /\ Len(word) < Len(text)

----------------------------------------------------------------------------
(* models/entities.py: construction of an ExtractedEntity *)

\* what stands for the ValueError that __post_init__ raises
ValueError == [raised |-> "ValueError"]

\* ExtractedEntity.__post_init__ lets the arguments through
post_init_passes(value, confidence) ==
    /\ 0 <= confidence /\ confidence <= CONF_ONE
    /\ Strip(value) # ""

\* a construction whose __post_init__ checks nothing
construct_unchecked(value, entity_type, confidence) ==
    [entity_type |-> entity_type, value |-> value, confidence |-> confidence]

\* ExtractedEntity(value=..., entity_type=..., confidence=...): the entity, or the error
construct_entity(value, entity_type, confidence) ==
    IF post_init_passes(value, confidence)
    THEN [entity_type |-> entity_type, value |-> value, confidence |-> confidence]
    ELSE ValueError

\* the result of a call that an exception ended
Raised == <<ValueError>>

\* found.append(ExtractedEntity(...)); an exception of the constructor ends the call
append_entity(found, entity) ==
    IF entity = ValueError THEN Raised ELSE Append(found, entity)

\* seen_values of the extractors: the values of the entities found so far
seen_values_of(found) == {found[n].value : n \in {m \in 1..Len(found) : found[m] # ValueError}}

----------------------------------------------------------------------------
(* extractors/text_extractors.py: extract_dates *)

YearDigits == Cat(<<Lit("1"), Cls({"4", "5", "6", "7", "8", "9"}), Cls(Digits), Cls(Digits)>>)

RE_YEAR ==
    Cat(<<NotBehind(Digits), Opt(Cat(<<Lit("שנת"), Sp>>)), YearDigits, NotAhead(Cls(Digits))>>)

RE_CENTURY_DIGIT ==
    Cat(<<Opt(Lit("ה")), Lit("מאה"), Sp, Opt(Lit("ה")),
          Alt(<<Cat(<<Lit("1"), Cls({"4", "5", "6", "7", "8", "9"})>>), Lit("20")>>),
          NotAhead(Cat(<<Sp0, Cls(Digits)>>))>>)

\* the characters U+2013 and U+2014, written with characters a string here can hold
EN_DASH == "~"
EM_DASH == "^"

RE_YEAR_RANGE ==
    Cat(<<RE_YEAR, Sp0, Alt(<<Lit("-"), Lit(EN_DASH), Lit(EM_DASH), Lit("/"), Lit("\\")>>),
          Sp0, RE_YEAR>>)

DATE_REGEXES ==
    << [pattern_name |-> "year_range",     regex |-> RE_YEAR_RANGE],
       [pattern_name |-> "gregorian_year", regex |-> RE_YEAR],
       [pattern_name |-> "century_digit",  regex |-> RE_CENTURY_DIGIT] >>

HEBREW_MONTHS == {"תשרי", "חשון", "כסלו", "טבת", "שבט", "אדר", "ניסן",
                  "אייר", "סיון", "תמוז", "אב", "אלול", "מרחשון"}

\* confidence of a date entity
date_confidence(pattern_name) == IF pattern_name = "year_range" THEN 900000 ELSE 850000

\* match.group().strip()
match_value(t, m) == Strip(Slice(t, m.start, m.end))

\* body of the inner loop of extract_dates for one match
date_of_match(found, value, pattern_name) ==
    IF value \in seen_values_of(found) THEN found
    ELSE IF Len(value) < 4 \/ value \in HEBREW_MONTHS THEN found
    ELSE append_entity(found, construct_entity(value, "date", date_confidence(pattern_name)))

RECURSIVE dates_of_matches(_, _, _, _, _)
\* the inner loop of extract_dates from the k-th match on
dates_of_matches(found, t, ms, k, pattern_name) ==
    IF k > Len(ms) \/ found = Raised THEN found
    ELSE TheOne({dates_of_matches(next_found, t, ms, k + 1, pattern_name) :
                    next_found \in {date_of_match(found, match_value(t, ms[k]), pattern_name)}})

RECURSIVE dates_of_regexes(_, _, _)
\* the outer loop of extract_dates from the k-th regex on
dates_of_regexes(found, t, k) ==
    IF k > Len(DATE_REGEXES) \/ found = Raised THEN found
    ELSE TheOne({dates_of_regexes(next_found, t, k + 1) :
                    next_found \in {dates_of_matches(found, t,
                                                     re_finditer(DATE_REGEXES[k].regex, t), 1,
                                                     DATE_REGEXES[k].pattern_name)}})

extract_dates(t) == IF Strip(t) = "" THEN <<>> ELSE dates_of_regexes(<<>>, t, 1)

(* ---- calls of extract_dates ---- *)

\* longest text, in words, given to extract_dates
MaxDateWords == 4

DateWords == {"1450", "1460", "שנת", "-", "14501", "15", "מאה"}

InitDates ==
    /\ pc = "extract_dates"
    /\ text \in TextsOver(DateWords, MaxDateWords) \cup {"", " "}
    /\ word = ""
    /\ out = <<>>
    /\ PipelineIdle
    /\ SetupIdle
    /\ ExtractorsIdle

CallExtractDates ==
    /\ pc = "extract_dates"
    /\ out' = extract_dates(text)
    /\ pc' = "dates_returned"
    /\ UNCHANGED <<text, word, pipeline_vars, extractor_vars, setup_vars>>

NextDates == CallExtractDates

SpecDates == InitDates /\ [][NextDates]_vars

\* the 4-digit years 1400-1999 that the texts can hold
YearsInTexts == {"1450", "1460"}

\* the occurrences of the year y in t
YearOccurrences(t, y) ==
    re_finditer(Cat(<<NotBehind(Digits), Lit(y), NotAhead(Cls(Digits))>>), t)

\* the entity names the year y: alone, or after the year word
NamesYear(e, y) ==
    /\ Len(e.value) >= 4
    /\ Slice(e.value, Len(e.value) - 4, Len(e.value)) = y
    /\ IsIn(Len(e.value), MatchEnds(RE_YEAR, e.value, 0))

EntitiesOfYear(found, y) == {n \in 1..Len(found) : NamesYear(found[n], y)}

\* no two date entities of the result have the same value
DateValuesDistinct == \A m, n \in 1..Len(out) : out[m].value = out[n].value => m = n

\* C13: a year that occurs two or more times in the text (alone, after the year word
\* שנת, or as an endpoint of a year range) gets exactly one date entity, and no two
\* date entities of a result have the same value.
C13_OneEntityPerYear ==
    pc = "dates_returned" =>
        /\ \A y \in YearsInTexts :
               Len(YearOccurrences(text, y)) >= 2 => Cardinality(EntitiesOfYear(out, y)) = 1
        /\ DateValuesDistinct

----------------------------------------------------------------------------
(* classification/grok_classifier.py: ontology mappings                      *)
(* A mapping is kept with its keys event_class and property; the keys level, *)
(* crm_class, event_role and context, which nothing here reads, are left out. *)

EVENT_TYPE_ONTOLOGY_MAPPING ==
    ("work creation date" :> [event_class |-> "F27_Work_Creation", property |-> "R16_created"])
    @@ ("work composition date" :> [event_class |-> "F27_Work_Creation", property |-> "R16_created"])
    @@ ("intellectual creation date" :> [event_class |-> "F27_Work_Creation", property |-> "R16_created"])
    @@ ("expression creation date" :> [event_class |-> "F28_Expression_Creation", property |-> "R17_created"])
    @@ ("text creation date" :> [event_class |-> "F28_Expression_Creation", property |-> "R17_created"])
    @@ ("copying date" :> [event_class |-> "F28_Expression_Creation", property |-> "R17_created"])
    @@ ("manifestation creation date" :> [event_class |-> "F30_Manifestation_Creation", property |-> "R24_created"])
    @@ ("edition creation date" :> [event_class |-> "F30_Manifestation_Creation", property |-> "R24_created"])
    @@ ("manuscript production date" :> [event_class |-> "F32_Item_Production_Event", property |-> "R27_materialized"])
    @@ ("writing date" :> [event_class |-> "E12_Production", property |-> "P108_has_produced"])
    @@ ("scribal date" :> [event_class |-> "E12_Production", property |-> "P108_has_produced"])
    @@ ("printing date" :> [event_class |-> "F30_Manifestation_Creation", property |-> "R24_created"])
    @@ ("publication date" :> [event_class |-> "F30_Manifestation_Creation", property |-> "R24_created"])
    @@ ("binding date" :> [event_class |-> "E11_Modification", property |-> "P31_has_modified"])
    @@ ("restoration date" :> [event_class |-> "E11_Modification", property |-> "P31_has_modified"])
    @@ ("illumination date" :> [event_class |-> "E11_Modification", property |-> "P31_has_modified"])
    @@ ("transfer of custody date" :> [event_class |-> "E10_Transfer_of_Custody", property |-> "P30_transferred_custody_of"])
    @@ ("donation date" :> [event_class |-> "E10_Transfer_of_Custody", property |-> "P30_transferred_custody_of"])
    @@ ("gift date" :> [event_class |-> "E10_Transfer_of_Custody", property |-> "P30_transferred_custody_of"])
    @@ ("acquisition date" :> [event_class |-> "E8_Acquisition", property |-> "P24_transferred_title_of"])
    @@ ("purchase date" :> [event_class |-> "E8_Acquisition", property |-> "P24_transferred_title_of"])
    @@ ("sale date" :> [event_class |-> "E8_Acquisition", property |-> "P24_transferred_title_of"])
    @@ ("reference date" :> [event_class |-> "Reference_Event", property |-> "P67_refers_to"])
    @@ ("cataloging date" :> [event_class |-> "Reference_Event", property |-> "P67_refers_to"])
    @@ ("digitization date" :> [event_class |-> "E31_Document", property |-> "P16_used_specific_object"])
    @@ ("birth date" :> [event_class |-> "E67_Birth", property |-> "P98_brought_into_life"])
    @@ ("death date" :> [event_class |-> "E69_Death", property |-> "P100_was_death_of"])
    @@ ("colophon date" :> [event_class |-> "Colophon", property |-> "mentions_date"])
    @@ ("colophon completion date" :> [event_class |-> "Colophon", property |-> "mentions_date"])
    @@ ("annotation date" :> [event_class |-> "E11_Modification", property |-> "P31_has_modified"])
    @@ ("inscription date" :> [event_class |-> "E11_Modification", property |-> "P31_has_modified"])

LOCATION_RELATION_ONTOLOGY_MAPPING ==
    ("production place" :> [event_class |-> "E12_Production", property |-> "P7_took_place_at"])
    @@ ("written in" :> [event_class |-> "E12_Production", property |-> "P7_took_place_at"])
    @@ ("copied in" :> [event_class |-> "E12_Production", property |-> "P7_took_place_at"])
    @@ ("published in" :> [event_class |-> "F30_Manifestation_Creation", property |-> "P7_took_place_at"])
    @@ ("printed in" :> [event_class |-> "F30_Manifestation_Creation", property |-> "P7_took_place_at"])
    @@ ("born in" :> [event_class |-> "E67_Birth", property |-> "P7_took_place_at"])
    @@ ("died in" :> [event_class |-> "E69_Death", property |-> "P7_took_place_at"])
    @@ ("resided in" :> [property |-> "P74_has_current_or_former_residence"])
    @@ ("lived in" :> [property |-> "P74_has_current_or_former_residence"])
    @@ ("moved to" :> [event_class |-> "E9_Move", property |-> "P26_moved_to"])
    @@ ("moved from" :> [event_class |-> "E9_Move", property |-> "P27_moved_from"])
    @@ ("sent to" :> [event_class |-> "E10_Transfer_of_Custody", property |-> "P26_moved_to"])
    @@ ("mentioned place" :> [property |-> "mentions_place"])
    @@ ("preserved in" :> [property |-> "P55_has_current_location"])

PERSON_ROLE_ONTOLOGY_MAPPING ==
    ("scribe" :> [event_class |-> "E12_Production", property |-> "has_scribe"])
    @@ ("copyist" :> [event_class |-> "F28_Expression_Creation", property |-> "has_scribe"])
    @@ ("illuminator" :> [event_class |-> "E11_Modification", property |-> "has_illuminator"])
    @@ ("author" :> [event_class |-> "F27_Work_Creation", property |-> "has_author"])
    @@ ("translator" :> [event_class |-> "F28_Expression_Creation", property |-> "has_translator"])
    @@ ("commentator" :> [event_class |-> "F28_Expression_Creation", property |-> "has_commentator"])
    @@ ("owner" :> [event_class |-> "E10_Transfer_of_Custody", property |-> "has_owner"])
    @@ ("previous owner" :> [event_class |-> "E10_Transfer_of_Custody", property |-> "has_previous_owner"])
    @@ ("donor" :> [event_class |-> "E10_Transfer_of_Custody", property |-> "has_donor"])
    @@ ("purchaser" :> [event_class |-> "E8_Acquisition", property |-> "has_purchaser"])
    @@ ("seller" :> [event_class |-> "E8_Acquisition", property |-> "has_seller"])
    @@ ("cataloger" :> [event_class |-> "Reference_Event", property |-> "has_cataloger"])
    @@ ("censor" :> [event_class |-> "E7_Activity", property |-> "has_censor"])
    @@ ("patron" :> [event_class |-> "E7_Activity", property |-> "has_patron"])
    @@ ("dedicatee" :> [event_class |-> "None", property |-> "has_dedicatee"])
    @@ ("colophon scribe" :> [event_class |-> "E12_Production", property |-> "mentions_scribe"])
    @@ ("mentioned person" :> [event_class |-> "None", property |-> "mentions_person"])

\* dict.get(key) or ...: the entry of the table, the empty dict when there is none
TableGet(table, label) == IF label \in DOMAIN table THEN table[label] ELSE <<>>

\* the dict is truthy
NonEmptyDict(d) == DOMAIN d # {}

get_ontology_mapping(label) ==
    IF NonEmptyDict(TableGet(EVENT_TYPE_ONTOLOGY_MAPPING, label))
    THEN EVENT_TYPE_ONTOLOGY_MAPPING[label]
    ELSE IF NonEmptyDict(TableGet(LOCATION_RELATION_ONTOLOGY_MAPPING, label))
    THEN LOCATION_RELATION_ONTOLOGY_MAPPING[label]
    ELSE IF NonEmptyDict(TableGet(PERSON_ROLE_ONTOLOGY_MAPPING, label))
    THEN PERSON_ROLE_ONTOLOGY_MAPPING[label]
    ELSE [event_class |-> "E7_Activity"]

----------------------------------------------------------------------------
(* pipeline.py: create_events_from_classified, enrich_manuscript_with_classification *)

\* the values of the enum EventClass
EventClass == {"E12_Production", "E10_Transfer_of_Custody", "E8_Acquisition",
               "E11_Modification", "E67_Birth", "E69_Death", "E7_Activity",
               "F32_Item_Production_Event", "F28_Expression_Creation", "Reference_Event"}

\* a ClassifiedEntity with the ontology mapping it was built with
ClassifiedWithMapping(entity_type, value, label, ontology_mapping) ==
    [entity_type |-> entity_type, value |-> value, label |-> label,
     ontology_mapping |-> ontology_mapping]

\* Place(name=...), and the record that stands for place=None
Place(name) == [name |-> name]
NoPlaceOfEvent == [name |-> None]

Event(event_type, event_class, manuscript_id, date, place, properties) ==
    [event_type |-> event_type, event_class |-> event_class, manuscript_id |-> manuscript_id,
     date |-> date, place |-> place, actor |-> None, properties |-> properties]

RECURSIVE str_replace(_, _, _)
\* t.replace(old, new)
str_replace(t, old, new) ==
    IF str_find(t, old) = -1 THEN t
    ELSE Slice(t, 0, str_find(t, old)) \o new
         \o str_replace(Slice(t, str_find(t, old) + Len(old), Len(t)), old, new)

\* ontology_mapping.get("event_class", "E7_Activity")
event_class_name_of(ontology_mapping) ==
    IF "event_class" \in DOMAIN ontology_mapping THEN ontology_mapping.event_class
    ELSE "E7_Activity"

\* the event class taken as it is named, whether the enum has it or not
event_class_unchecked(event_class_name) == event_class_name

\* try: EventClass(event_class_name) except ValueError: EventClass.E7_ACTIVITY
event_class_of(event_class_name) ==
    IF event_class_name \in EventClass THEN event_class_name ELSE "E7_Activity"

event_type_of(label) == str_replace(str_replace(label, " date", ""), " in", "")

\* body of the loop of create_events_from_classified: the events one entity adds
events_of_classified(manuscript, classified) ==
    IF classified.entity_type = "date"
    THEN << Event(event_type_of(classified.label),
                  event_class_of(event_class_name_of(classified.ontology_mapping)),
                  manuscript.manuscript_id, classified.value, NoPlaceOfEvent,
                  classified.ontology_mapping) >>
    ELSE IF classified.entity_type = "location"
    THEN << Event(event_type_of(classified.label),
                  event_class_of(event_class_name_of(classified.ontology_mapping)),
                  manuscript.manuscript_id, None, Place(classified.value),
                  classified.ontology_mapping) >>
    ELSE <<>>

create_events_from_classified(manuscript, classified_entities) ==
    Flat([n \in 1..Len(classified_entities) |->
             events_of_classified(manuscript, classified_entities[n])])

\* Work(title=...), ColophonInfo(...), and the records that stand for None
Work(title) == [title |-> title]
NoWork == [title |-> None]
ColophonInfo(colophon_text, scribe_name) == [text |-> colophon_text, scribe_name |-> scribe_name]
NoColophon == [text |-> None, scribe_name |-> None]

\* the Manuscript that extract_all_entities returns: all the fields of the dataclass
FullManuscript(ms, colophon, work, source_metadata) ==
    [manuscript_id |-> ms.manuscript_id, notes_text |-> ms.notes_text,
     dates |-> ms.dates, locations |-> ms.locations, persons |-> ms.persons,
     colophon |-> colophon, work |-> work, expression |-> None, events |-> <<>>,
     nli_uri |-> None, source_metadata |-> source_metadata]

\* an enrichment that builds the new Manuscript from the identifying fields alone
enrich_from_id_and_text(manuscript, classified_entities) ==
    [FullManuscript(manuscript, NoColophon, NoWork, <<>>) EXCEPT
        !.events = create_events_from_classified(manuscript, classified_entities)]

enrich_manuscript_with_classification(manuscript, classified_entities) ==
    [manuscript_id   |-> manuscript.manuscript_id,
     notes_text      |-> manuscript.notes_text,
     dates           |-> manuscript.dates,
     locations       |-> manuscript.locations,
     persons         |-> manuscript.persons,
     colophon        |-> manuscript.colophon,
     work            |-> manuscript.work,
     expression      |-> manuscript.expression,
     events          |-> create_events_from_classified(manuscript, classified_entities),
     nli_uri         |-> manuscript.nli_uri,
     source_metadata |-> manuscript.source_metadata]

(* ---- run_extraction_pipeline: "Enrich manuscripts with events" ---- *)

\* longest list of classified entities of one manuscript
MaxClassified == 2

\* classified entities as classify_entities_hybrid, GrokClassifier and the AI extractor
\* build them: the mapping of the label, or the empty mapping
ClassifiedItems ==
    { ClassifiedWithMapping("date", "1450", "writing date", get_ontology_mapping("writing date")),
      ClassifiedWithMapping("date", "1460", "work creation date",
                            get_ontology_mapping("work creation date")),
      ClassifiedWithMapping("date", "1450", "copying date", <<>>),
      ClassifiedWithMapping("location", "דמשק", "written in", get_ontology_mapping("written in")),
      ClassifiedWithMapping("location", "דמשק", "resided in", get_ontology_mapping("resided in")),
      ClassifiedWithMapping("location", "רומא", "moved to", get_ontology_mapping("moved to")),
      ClassifiedWithMapping("person", "משה", "scribe", get_ontology_mapping("scribe")),
      ClassifiedWithMapping("person", "דוד", "dedicatee", get_ontology_mapping("dedicatee")) }

ClassifiedLists == SeqsUpTo(ClassifiedItems, MaxClassified) \cup {<<>>}

MsWithColophon ==
    FullManuscript(MsPlacesDates, ColophonInfo("נשלם", "משה"), Work("ספר"),
                   [title |-> "ספר", date |-> "1450"])
MsPlain == FullManuscript(MsNamesakes, NoColophon, NoWork, <<>>)
MsBare  == FullManuscript(MsEmpty, NoColophon, NoWork, [title |-> ""])

\* the lists of manuscripts that reach the enrichment
EnrichRuns == {<<MsWithColophon>>, <<MsPlain, MsWithColophon>>, <<MsBare, MsWithColophon, MsPlain>>}

IdsOf(mss) == {mss[k].manuscript_id : k \in 1..Len(mss)}

InitEnrich ==
    /\ pc = "enrich"
    /\ manuscripts \in EnrichRuns
    /\ \E ids \in SUBSET IdsOf(manuscripts), cl \in ClassifiedLists :
           all_classified = [id \in ids |-> cl]
    /\ ms_index = 1
    /\ out = <<>>
    /\ text = "" /\ word = ""
    /\ mode = None /\ requests_available = TRUE /\ needs_ai = <<>> /\ job = NoJob
    /\ batch = NoBatch /\ chunks = <<>> /\ pattern_snapshot = <<>> /\ log = {}
    /\ ExtractorsIdle
    /\ SetupIdle

enrich_frame == <<text, word, mode, requests_available, needs_ai, job, batch, chunks,
                  pattern_snapshot, log, extractor_vars, setup_vars>>

\* one iteration of the loop "for ms in manuscripts"; out is enriched_manuscripts
EnrichIteration ==
    /\ pc = "enrich"
    /\ ms_index <= Len(manuscripts)
    /\ out' = Append(out,
                 IF manuscripts[ms_index].manuscript_id \in DOMAIN all_classified
                 THEN enrich_manuscript_with_classification(
                          manuscripts[ms_index],
                          all_classified[manuscripts[ms_index].manuscript_id])
                 ELSE manuscripts[ms_index])
    /\ ms_index' = ms_index + 1
    /\ UNCHANGED <<pc, manuscripts, all_classified, enrich_frame>>

\* the loop ends; from here on the pipeline reads enriched_manuscripts
EnrichDone ==
    /\ pc = "enrich"
    /\ ms_index > Len(manuscripts)
    /\ pc' = "enriched"
    /\ UNCHANGED <<out, ms_index, manuscripts, all_classified, enrich_frame>>

NextEnrich == EnrichIteration \/ EnrichDone

SpecEnrich == InitEnrich /\ [][NextEnrich]_vars

\* the manuscripts enriched so far that have an entry in classified_map
Enriched == {k \in 1..Len(out) : manuscripts[k].manuscript_id \in DOMAIN all_classified}

ClassifiedFor(k) == all_classified[manuscripts[k].manuscript_id]

\* the event carries what the classified entity holds
EventCarries(event, classified) ==
    CASE classified.entity_type = "date"     -> event.date = classified.value
      [] classified.entity_type = "location" -> event.place = Place(classified.value)
      [] OTHER                               -> event.manuscript_id # None

\* C14: create_events_from_classified returns one event per classified entity: the
\* n-th event carries the date or the place of the n-th entity, an entity of another
\* type (a person) has its record too, and there are as many events as entities.
C14_OneEventPerClassified ==
    \A k \in Enriched :
        /\ Len(out[k].events) = Len(ClassifiedFor(k))
        /\ \A n \in 1..Len(ClassifiedFor(k)) :
               n <= Len(out[k].events) => EventCarries(out[k].events[n], ClassifiedFor(k)[n])

\* the classified dates and locations of the k-th manuscript
DatesAndLocations(k) ==
    SelectSeq(ClassifiedFor(k), LAMBDA c : c.entity_type \in {"date", "location"})

\* the mapping names no event class, or one that the enum has not
Unresolved(ontology_mapping) ==
    \/ "event_class" \notin DOMAIN ontology_mapping
    \/ ontology_mapping.event_class \notin EventClass

\* C15: a classified date or location whose ontology mapping has no event_class, or
\* names a class that is not in EventClass, still gets its event, with class E7_Activity.
C15_UnresolvedClassFallsBack ==
    \A k \in Enriched :
        /\ Len(out[k].events) = Len(DatesAndLocations(k))
        /\ \A n \in 1..Len(DatesAndLocations(k)) :
               /\ EventCarries(out[k].events[n], DatesAndLocations(k)[n])
               /\ Unresolved(DatesAndLocations(k)[n].ontology_mapping)
                      => out[k].events[n].event_class = "E7_Activity"

\* events were made for a mapping without event_class and for one naming E9_Move
C15_Witness ==
    \E k \in Enriched :
        /\ \E n \in 1..Len(DatesAndLocations(k)) :
               /\ "event_class" \notin DOMAIN DatesAndLocations(k)[n].ontology_mapping
               /\ out[k].events[n].event_class = "E7_Activity"
        /\ \E n \in 1..Len(DatesAndLocations(k)) :
               /\ "event_class" \in DOMAIN DatesAndLocations(k)[n].ontology_mapping
               /\ DatesAndLocations(k)[n].ontology_mapping.event_class = "E9_Move"
               /\ out[k].events[n].event_class = "E7_Activity"

\* the fields of a Manuscript other than events
FrameFields == {"manuscript_id", "notes_text", "dates", "locations", "persons", "colophon",
                "work", "expression", "nli_uri", "source_metadata"}

\* C20: an enriched manuscript equals its input in every field but events, the input
\* manuscripts stay as they were, and a manuscript without entry in the classified map
\* is passed on as it is, with its empty list of events.
C20_EnrichmentKeepsFrame ==
    /\ [](\A k \in 1..Len(out) :
             /\ DOMAIN out[k] = FrameFields \cup {"events"}
             /\ \A f \in FrameFields : out[k][f] = manuscripts[k][f]
             /\ k \notin Enriched => (out[k] = manuscripts[k] /\ out[k].events = <<>>))
    /\ [][manuscripts' = manuscripts]_vars

\* a manuscript with colophon, work and metadata was given its events
C20_Witness ==
    \E k \in Enriched :
        /\ out[k].events # <<>>
        /\ out[k].colophon # NoColophon
        /\ out[k].work # NoWork
        /\ out[k].source_metadata # <<>>
        /\ manuscripts[k].events = <<>>

----------------------------------------------------------------------------
(* extractors/text_extractors.py: extract_locations (legacy gazetteer)       *)

LOCATION_BLACKLIST ==
    {"תל", "בית", "קרית", "תלמוד", "בתלמוד", "תלמידי", "תלמידים", "ישראל", "יקום",
     "פורקן", "יזכור", "ואני", "עומר", "האלה", "פרוט", "קוטי", "תלת", "התל", "קארו",
     "פאנו", "אליהו", "משה", "יוסף", "קורי", "אייר"}

\* defaults of the parameters max_tokens and min_token_length
MAX_TOKENS       == 6
MIN_TOKEN_LENGTH == 2

_strip_hebrew_prefixes(token) ==
    IF Len(token) > 2 /\ Ch(token, 0) \in HEBREW_PREFIXES
    THEN IF Len(token) - 1 > 1 /\ Ch(token, 1) \in HEBREW_PREFIXES /\ Len(token) - 1 > 2
         THEN Slice(token, 2, Len(token))
         ELSE Slice(token, 1, Len(token))
    ELSE token

\* HEB_PATTERN: [֐-׿\-]+
HEB_PATTERN == Plus(Cls(HebrewBlock \cup {"-"}))

\* a token that the clean-up keeps
kept_token(tok) == tok # "-" /\ Ch(tok, 0) # "-" /\ Ch(tok, Len(tok) - 1) # "-"

\* tokens: re.findall(HEB_PATTERN, text) without the hyphen tokens
hebrew_tokens(t) ==
    SelectSeq([n \in 1..Len(re_finditer(HEB_PATTERN, t)) |->
                   Slice(t, re_finditer(HEB_PATTERN, t)[n].start,
                         re_finditer(HEB_PATTERN, t)[n].end)],
              kept_token)

\* " ".join(tokens[i:i+n])
phrase_at(tokens, i, n) == JoinWords(SubSeq(tokens, i + 1, i + n))

\* " ".join([stripped_first] + tokens[i+1:i+n])
stripped_phrase_at(tokens, i, n) ==
    JoinWords(<<_strip_hebrew_prefixes(tokens[i + 1])>> \o SubSeq(tokens, i + 2, i + n))

\* the entity with the ghost fields first and last: the token window it was read from
at_window(entity, first, last) ==
    IF entity = ValueError THEN entity
    ELSE [entity_type |-> entity.entity_type, value |-> entity.value,
          confidence |-> entity.confidence, first |-> first, last |-> last]

\* the locals of extract_locations
LocationsFound(locations, multi_word_tokens) ==
    [locations |-> locations, multi_word_tokens |-> multi_word_tokens]

\* an entity of a multi-word window is appended and its tokens are marked
emit_window(acc, tokens, value, confidence, i, n) ==
    LocationsFound(
        append_entity(acc.locations,
                      at_window(construct_entity(value, "location", confidence), i, i + n - 1)),
        acc.multi_word_tokens \cup {tokens[j + 1] : j \in i..(i + n - 1)})

\* an entity of a single token is appended
emit_token(acc, value, confidence, i) ==
    LocationsFound(
        append_entity(acc.locations,
                      at_window(construct_entity(value, "location", confidence), i, i)),
        acc.multi_word_tokens)

\* body of the multi-word loops for the window of n tokens at i
multi_word_step(acc, tokens, gazetteer, i, n) ==
    IF /\ phrase_at(tokens, i, n) \in gazetteer
       /\ phrase_at(tokens, i, n) \notin seen_values_of(acc.locations)
    THEN emit_window(acc, tokens, phrase_at(tokens, i, n), 950000, i, n)
    ELSE IF /\ _strip_hebrew_prefixes(tokens[i + 1]) # tokens[i + 1]
            /\ stripped_phrase_at(tokens, i, n) \in gazetteer
            /\ stripped_phrase_at(tokens, i, n) \notin seen_values_of(acc.locations)
    THEN emit_window(acc, tokens, stripped_phrase_at(tokens, i, n), 900000, i, n)
    ELSE acc

RECURSIVE multi_word_loops(_, _, _, _, _)
\* for n in range(max_tokens, 1, -1): for i in range(len(tokens) - n + 1), from (n, i) on
multi_word_loops(acc, tokens, gazetteer, n, i) ==
    IF n <= 1 \/ acc.locations = Raised THEN acc
    ELSE IF i >= Len(tokens) - n + 1
    THEN multi_word_loops(acc, tokens, gazetteer, n - 1, 0)
    ELSE TheOne({multi_word_loops(next_acc, tokens, gazetteer, n, i + 1) :
                    next_acc \in {multi_word_step(acc, tokens, gazetteer, i, n)}})

\* the gazetteer test of the single-token loop, for a token that passed the blacklist
single_token_match(acc, token, gazetteer, i) ==
    IF token \in gazetteer
    THEN IF token \notin seen_values_of(acc.locations)
         THEN emit_token(acc, token, 900000, i) ELSE acc
    ELSE IF _strip_hebrew_prefixes(token) # token /\ _strip_hebrew_prefixes(token) \in gazetteer
    THEN IF _strip_hebrew_prefixes(token) \in LOCATION_BLACKLIST THEN acc
         ELSE IF _strip_hebrew_prefixes(token) \notin seen_values_of(acc.locations)
         THEN emit_token(acc, _strip_hebrew_prefixes(token), 850000, i) ELSE acc
    ELSE acc

\* body of the single-token loop for the token at i
single_token_step(acc, token, gazetteer, i) ==
    IF token \in acc.multi_word_tokens THEN acc
    ELSE IF Len(token) >= MIN_TOKEN_LENGTH /\ token \notin HEBREW_MONTHS
    THEN IF token \in LOCATION_BLACKLIST THEN acc
         ELSE IF _strip_hebrew_prefixes(token) \in LOCATION_BLACKLIST THEN acc
         ELSE single_token_match(acc, token, gazetteer, i)
    ELSE acc

RECURSIVE single_token_loop(_, _, _, _)
\* for token in tokens, from the token at i on
single_token_loop(acc, tokens, gazetteer, i) ==
    IF i >= Len(tokens) \/ acc.locations = Raised THEN acc
    ELSE TheOne({single_token_loop(next_acc, tokens, gazetteer, i + 1) :
                    next_acc \in {single_token_step(acc, tokens[i + 1], gazetteer, i)}})

extract_locations(t, gazetteer) ==
    IF Strip(t) = "" THEN <<>>
    ELSE TheOne({single_token_loop(
                     TheOne({multi_word_loops(LocationsFound(<<>>, {}), tokens, gazetteer,
                                              MAX_TOKENS, 0)}),
                     tokens, gazetteer, 0).locations : tokens \in {hebrew_tokens(t)}})

(* ---- calls of extract_locations ---- *)

\* longest text, in words, given to extract_locations
MaxLegacyWords == 3

LegacyWords == {"תל", "אביב", "יפו", "בתל", "ביפו"}

LegacyNames == {"תל אביב יפו", "תל אביב", "אביב יפו", "יפו", "אביב"}

\* a legacy gazetteer is a set of names: the places of an index without forms or variants
LegacyGazetteers ==
    {KimaIndex(P, <<>>, <<>>) : P \in {Q \in SUBSET LegacyNames : Cardinality(Q) <= MaxPlaces}}

InitLegacy ==
    /\ pc = "extract_locations"
    /\ text \in TextsOver(LegacyWords, MaxLegacyWords) \cup {" "}
    /\ word = ""
    /\ out = <<>>
    /\ kima \in LegacyGazetteers
    /\ calls = 0
    /\ confidence_arg = 0
    /\ PipelineIdle
    /\ SetupIdle

CallExtractLocations ==
    /\ pc = "extract_locations"
    /\ out' = extract_locations(text, kima.places)
    /\ pc' = "locations_returned"
    /\ UNCHANGED <<text, word, pipeline_vars, extractor_vars, setup_vars>>

NextLegacy == CallExtractLocations

SpecLegacy == InitLegacy /\ [][NextLegacy]_vars

\* the token positions of the entity
WindowOf(entity) == entity.first .. entity.last

\* C18: the location entities that extract_locations emits never come from overlapping
\* token windows: the token positions of a matched multi-word window contribute to no
\* other emitted entity, neither to a shorter multi-word window nor to a single token.
C18_NoOverlappingWindows ==
    pc = "locations_returned" =>
        \A m, n \in 1..Len(out) :
            m # n => WindowOf(out[m]) \cap WindowOf(out[n]) = {}

\* the part of C18 about single tokens: no single-token entity lies in a multi-word window
SingleTokensOutsideWindows ==
    pc = "locations_returned" =>
        \A m, n \in 1..Len(out) :
            (out[m].first < out[m].last /\ out[n].first = out[n].last)
                => out[n].first \notin WindowOf(out[m])

----------------------------------------------------------------------------
(* extractors/text_extractors.py: extract_locations_with_kima                *)

\* phrase.split()[0] if ' ' in phrase else phrase
phrase_base_of(phrase) == IF Contains(phrase, " ") THEN first_token(phrase) ELSE phrase

\* ' ' not in canonical_base and '(' not in canonical_name
single_word_without_country(canonical_name) ==
    /\ ~ Contains(Strip(strip_country_suffix(canonical_name)), " ")
    /\ ~ Contains(canonical_name, "(")

\* is_valid of the branch taken for the canonical name
kima_is_valid(canonical_name, t) ==
    IF single_word_without_country(canonical_name)
    THEN validate_location_extraction(canonical_name, t, 4, TRUE)
    ELSE validate_location_extraction(canonical_name, t, 3, FALSE)

\* min_confidence of the branch taken for the canonical name
kima_min_confidence(canonical_name) ==
    IF single_word_without_country(canonical_name) THEN 600000 ELSE 400000

\* a candidate that is always judged by the lenient branch
kima_candidate_lenient(found, t, canonical_name) ==
    IF \/ ~ validate_location_extraction(canonical_name, t, 3, FALSE)
       \/ get_location_confidence(canonical_name, t) < 400000
    THEN found
    ELSE append_entity(found, construct_entity(canonical_name, "location",
                                               get_location_confidence(canonical_name, t)))

\* from "confidence = get_location_confidence(...)" to seen_values.add(canonical_name)
kima_candidate(found, t, canonical_name) ==
    IF \/ ~ kima_is_valid(canonical_name, t)
       \/ get_location_confidence(canonical_name, t) < kima_min_confidence(canonical_name)
    THEN found
    ELSE append_entity(found, construct_entity(canonical_name, "location",
                                               get_location_confidence(canonical_name, t)))

\* body of the loops for the phrase of n tokens at i
kima_step(found, t, phrase, gazetteer) ==
    IF is_blacklisted(phrase_base_of(phrase)) THEN found
    ELSE IF /\ lookup(gazetteer, phrase) # NoPlace
            /\ lookup(gazetteer, phrase).hebrew \notin seen_values_of(found)
    THEN kima_candidate(found, t, lookup(gazetteer, phrase).hebrew)
    ELSE found

RECURSIVE kima_loops(_, _, _, _, _, _)
\* for n in range(max_tokens, 0, -1): for i in range(len(tokens) - n + 1), from (n, i) on
kima_loops(found, t, tokens, gazetteer, n, i) ==
    IF n <= 0 \/ found = Raised THEN found
    ELSE IF i >= Len(tokens) - n + 1
    THEN kima_loops(found, t, tokens, gazetteer, n - 1, 0)
    ELSE TheOne({kima_loops(next_found, t, tokens, gazetteer, n, i + 1) :
                    next_found \in {kima_step(found, t, phrase_at(tokens, i, n), gazetteer)}})

extract_locations_with_kima(t, kima_gazetteer) ==
    IF Strip(t) = "" THEN <<>>
    ELSE TheOne({kima_loops(<<>>, t, tokens, kima_gazetteer, MAX_TOKENS, 0) :
                    tokens \in {hebrew_tokens(t)}})

(* ---- calls of extract_locations_with_kima ---- *)

\* longest text, in words, given to extract_locations_with_kima
MaxKimaWords == 3

KimaWords == {"נשלם", "בדמשק", "דמשק", "בית", "לחם"}

KimaIndexes ==
    { KimaIndex({"דמשק", "בית לחם"}, <<>>, <<>>),
      KimaIndex({"דמשק", "דמשק (סוריה)"}, [x \in {"בדמשק"} |-> "דמשק (סוריה)"], <<>>),
      KimaIndex({"בית לחם", "לחם"}, <<>>, [x \in {"דמשק"} |-> "לחם"]),
      KimaIndex({"קושטא"}, [x \in {"דמשק"} |-> "קושטא"], [x \in {"לחם"} |-> "קושטא"]) }

InitKima ==
    /\ pc = "extract_locations_with_kima"
    /\ text \in TextsOver(KimaWords, MaxKimaWords) \cup {" "}
    /\ word = ""
    /\ out = <<>>
    /\ kima \in KimaIndexes
    /\ calls = 0
    /\ confidence_arg = 0
    /\ PipelineIdle
    /\ SetupIdle

CallExtractLocationsWithKima ==
    /\ pc = "extract_locations_with_kima"
    /\ out' = extract_locations_with_kima(text, kima)
    /\ pc' = "kima_locations_returned"
    /\ UNCHANGED <<text, word, pipeline_vars, extractor_vars, setup_vars>>

NextKima == CallExtractLocationsWithKima

SpecKima == InitKima /\ [][NextKima]_vars

\* C19: every entity that extract_locations_with_kima emits passed
\* validate_location_extraction and meets its threshold: a single-word canonical name
\* without qualifier has a location context indicator and a confidence of at least 0.6,
\* a multi-word or qualified name a confidence of at least 0.4; and no two emitted
\* entities have the same canonical value.
C19_EmittedAreValidated ==
    pc = "kima_locations_returned" =>
        /\ \A n \in 1..Len(out) :
               IF ~ Contains(Strip(strip_country_suffix(out[n].value)), " ")
                  /\ ~ Contains(out[n].value, "(")
               THEN /\ validate_location_extraction(out[n].value, text, 4, TRUE)
                    /\ has_location_context_indicator(text, out[n].value)
                    /\ out[n].confidence >= 600000
               ELSE /\ validate_location_extraction(out[n].value, text, 3, FALSE)
                    /\ out[n].confidence >= 400000
        /\ \A m, n \in 1..Len(out) : out[m].value = out[n].value => m = n

\* a single-word name and a multi-word name were emitted by one call
C19_Witness ==
    /\ pc = "kima_locations_returned"
    /\ \E n \in 1..Len(out) : ~ Contains(out[n].value, " ")
    /\ \E n \in 1..Len(out) : Contains(out[n].value, " ")

----------------------------------------------------------------------------
(* Constructions of ExtractedEntity: direct ones, and those of the extractors *)

\* longest text, in words, given to an extractor here
MaxEntityWords == 2

EntityWords == {"1450", "שנת", "נשלם", "בדמשק", "תל", "אביב"}

\* value arguments of a direct construction
EntityValues == {"", " ", " \t", "דמשק", " דמשק "}

\* confidence arguments of a direct construction, in millionths
EntityConfidences == {-1, 0, 850000, CONF_ONE, CONF_ONE + 1}

EntityIndexes ==
    { KimaIndex({"דמשק", "תל אביב"}, <<>>, <<>>),
      KimaIndex({"דמשק (סוריה)", "אביב"}, [x \in {"בדמשק"} |-> "דמשק (סוריה)"], <<>>) }

InitEntity ==
    /\ \/ /\ pc = "ExtractedEntity"
          /\ text = ""
          /\ word \in EntityValues
          /\ confidence_arg \in EntityConfidences
          /\ kima = KimaIndex({}, <<>>, <<>>)
       \/ /\ pc \in {"extract_dates", "extract_locations", "extract_locations_with_kima"}
          /\ text \in TextsOver(EntityWords, MaxEntityWords)
          /\ word = ""
          /\ confidence_arg = 0
          /\ kima \in EntityIndexes
    /\ out = <<>>
    /\ calls = 0
    /\ PipelineIdle
    /\ SetupIdle

\* ExtractedEntity(value=word, entity_type=EntityType.LOCATION, confidence=confidence_arg)
ConstructEntity ==
    /\ pc = "ExtractedEntity"
    /\ out' = construct_entity(word, "location", confidence_arg)
    /\ pc' = "constructed"
    /\ UNCHANGED <<text, word, pipeline_vars, extractor_vars, setup_vars>>

NextEntity ==
    \/ ConstructEntity
    \/ CallExtractDates
    \/ CallExtractLocations
    \/ CallExtractLocationsWithKima

SpecEntity == InitEntity /\ [][NextEntity]_vars

\* C16: constructing an ExtractedEntity with a confidence outside [0,1], or with an empty
\* or whitespace-only value, fails and creates no entity; so every entity that
\* extract_dates, extract_locations or extract_locations_with_kima returns has a
\* confidence in [0,1] and a value that is not blank.
C16_EntitiesAreValid ==
    /\ pc = "constructed" =>
           /\ out = ValueError <=>
                  (confidence_arg < 0 \/ confidence_arg > CONF_ONE \/ Strip(word) = "")
           /\ out # ValueError => (out.value = word /\ out.confidence = confidence_arg)
    /\ pc \in {"dates_returned", "locations_returned", "kima_locations_returned"} =>
           \A n \in 1..Len(out) :
               \/ out[n] = ValueError
               \/ /\ 0 <= out[n].confidence /\ out[n].confidence <= CONF_ONE
                  /\ Strip(out[n].value) # ""

\* a whitespace-only value with a confidence inside [0,1] was refused
C16_Witness ==
    /\ pc = "constructed"
    /\ out = ValueError
    /\ word # "" /\ Strip(word) = ""
    /\ 0 <= confidence_arg /\ confidence_arg <= CONF_ONE

----------------------------------------------------------------------------
(* io/kima_loader.py: construction of a KimaGazetteer from the data directory *)

\* a file with the rows that csv.DictReader yields; a directory with its three files
File(rows) == [exists |-> TRUE, rows |-> rows]
Dir(places, variants, forms) ==
    [exists |-> TRUE, places |-> places, variants |-> variants, forms |-> forms]

\* what stands for the FileNotFoundError of _load_master_gazetteer, and for "no index"
FileNotFoundError == [raised |-> "FileNotFoundError"]
NoKima == [places |-> None]

\* path.exists() of a file of the directory
file_exists(dir, name) == dir.exists /\ dir[name].exists

\* the dict that the assignments d[pairs[n][1]] = pairs[n][2], made in order, leave
dict_of_pairs(pairs) ==
    [key \in {pairs[n][1] : n \in 1..Len(pairs)} |->
        pairs[CHOOSE n \in 1..Len(pairs) :
                  /\ pairs[n][1] = key
                  /\ \A m \in (n + 1)..Len(pairs) : pairs[m][1] # key][2]]

pairs_of(rows, key(_), value(_)) == [n \in 1..Len(rows) |-> <<key(rows[n]), value(rows[n])>>]

\* _load_master_gazetteer: the keys of self.places, and self.place_id_index
master_places(rows) == {rows[n].primary_heb_full : n \in 1..Len(rows)}
master_place_id_index(rows) ==
    dict_of_pairs(pairs_of(rows, LAMBDA row : row.Id, LAMBDA row : row.primary_heb_full))

\* _load_variants: the rows whose PlaceId the index knows give variant -> canonical
load_variants(file, place_id_index) ==
    IF ~ file.exists THEN <<>>
    ELSE dict_of_pairs(pairs_of(SelectSeq(file.rows, LAMBDA row : row.PlaceId \in DOMAIN place_id_index),
                                LAMBDA row : row.variant,
                                LAMBDA row : place_id_index[row.PlaceId]))

\* _load_maagarim_forms: every row gives ZURA -> word
load_maagarim_forms(file) ==
    IF ~ file.exists THEN <<>>
    ELSE dict_of_pairs(pairs_of(file.rows, LAMBDA row : row.ZURA, LAMBDA row : row.word))

\* the loading that takes a missing variants or textual-forms file for a fatal error
load_all_strict(dir) ==
    IF ~ (file_exists(dir, "places") /\ file_exists(dir, "variants") /\ file_exists(dir, "forms"))
    THEN FileNotFoundError
    ELSE KimaIndex(master_places(dir.places.rows),
                   load_maagarim_forms(dir.forms),
                   load_variants(dir.variants, master_place_id_index(dir.places.rows)))

\* KimaGazetteer.__init__ / _load_all: the index, or the error raised
_load_all(dir) ==
    IF ~ file_exists(dir, "places") THEN FileNotFoundError
    ELSE KimaIndex(master_places(dir.places.rows),
                   load_maagarim_forms(dir.forms),
                   load_variants(dir.variants, master_place_id_index(dir.places.rows)))

\* the warnings that _load_variants and _load_maagarim_forms print
load_warnings(dir) ==
    IF ~ file_exists(dir, "places") THEN <<>>
    ELSE (IF dir.variants.exists THEN <<>> ELSE <<"Kima variants file not found">>)
         \o (IF dir.forms.exists THEN <<>> ELSE <<"Maagarim forms file not found">>)

(* ---- calls of KimaGazetteer(data_dir), and of lookup on the index built ---- *)

MasterRow(canonical, id) == [primary_heb_full |-> canonical, Id |-> id]
VariantRow(variant, id)  == [variant |-> variant, PlaceId |-> id]
FormRow(erekh, zura)     == [word |-> erekh, ZURA |-> zura]

MasterFiles ==
    { Missing,
      File(<<>>),
      File(<<MasterRow("דמשק", "p1")>>),
      File(<<MasterRow("בבל", "p1"), MasterRow("רומא", "p2"), MasterRow("דמשק", "p2")>>) }
VariantFiles ==
    { Missing,
      File(<<VariantRow("רומי", "p2"), VariantRow("שאם", "p1")>>),
      File(<<VariantRow("רומי", "p9")>>) }
FormFiles ==
    { Missing,
      File(<<FormRow("דמשק", "בדמשק"), FormRow("רומא", "בדמשק")>>),
      File(<<FormRow("חלב", "לחלב")>>) }

DataDirs ==
    {Missing} \cup {Dir(p, v, f) : p \in MasterFiles, v \in VariantFiles, f \in FormFiles}

BuildTexts == {"דמשק", "בדמשק", "ובדמשק", "רומי", "שאם", "לחלב", "מרומא", "בבל"}

InitBuild ==
    /\ pc = "KimaGazetteer"
    /\ data_dir \in DataDirs
    /\ text \in BuildTexts
    /\ word = ""
    /\ out = NoPlace
    /\ kima = NoKima
    /\ calls = 0
    /\ confidence_arg = 0
    /\ config = NoConfig
    /\ warnings = <<>>
    /\ PipelineIdle

\* kima_gazetteer = KimaGazetteer(data_dir)
BuildKimaGazetteer ==
    /\ pc = "KimaGazetteer"
    /\ IF _load_all(data_dir) = FileNotFoundError
       THEN /\ out' = FileNotFoundError
            /\ pc' = "raised"
            /\ UNCHANGED kima
       ELSE /\ kima' = _load_all(data_dir)
            /\ pc' = "built"
            /\ UNCHANGED out
    /\ warnings' = warnings \o load_warnings(data_dir)
    /\ UNCHANGED <<text, word, calls, confidence_arg, config, data_dir, pipeline_vars>>

\* kima_gazetteer.lookup(text)
LookupBuilt ==
    /\ pc = "built"
    /\ out' = lookup(kima, text)
    /\ pc' = "looked_up"
    /\ UNCHANGED <<text, word, pipeline_vars, extractor_vars, setup_vars>>

NextBuild == BuildKimaGazetteer \/ LookupBuilt

SpecBuild == InitBuild /\ [][NextBuild]_vars

\* the canonical names of the master file of data_dir
CanonicalNames == master_places(data_dir.places.rows)

\* C21: with the master places file present the construction succeeds also when the
\* variants file, the textual-forms file or both are missing, and lookup on the index
\* built resolves a canonical name, and a text that the prefix stripping turns into a
\* canonical name, to that place; with the master file missing the construction raises
\* an error and no index is produced.
C21_MissingFilesDegrade ==
    /\ pc \in {"built", "looked_up"} =>
           /\ file_exists(data_dir, "places")
           /\ kima # NoKima /\ kima.places = CanonicalNames
           /\ ~ data_dir.variants.exists => kima.variants = <<>>
           /\ ~ data_dir.forms.exists => kima.textual_forms = <<>>
    /\ (pc = "looked_up" /\ text \in CanonicalNames) => out = PlaceData(text)
    /\ (/\ pc = "looked_up"
        /\ ~ data_dir.variants.exists \/ ~ data_dir.forms.exists
        /\ lookup_direct(kima, text) = NoPlace
        /\ _strip_prefixes(text) \in CanonicalNames) => out = PlaceData(_strip_prefixes(text))
    /\ pc = "raised" =>
           /\ ~ file_exists(data_dir, "places")
           /\ out = FileNotFoundError
           /\ kima = NoKima

\* an index built without the variants file and without the textual-forms file has
\* resolved a prefixed canonical name
C21_Witness ==
    /\ pc = "looked_up"
    /\ ~ data_dir.variants.exists /\ ~ data_dir.forms.exists
    /\ text \notin CanonicalNames
    /\ out # NoPlace

----------------------------------------------------------------------------
(* classify_entities_hybrid: what goes to the AI classifier, and when *)

\* the elements of a list
Range(list) == {list[n] : n \in 1..Len(list)}

\* the persons and locations of ms for which the pattern classifier returns no label,
\* and the dates of ms
WithoutPatternRole(ms) ==
    {ExtractedEntity("person", ms.persons[k].name) : k \in
        {k \in 1..Len(ms.persons) :
            ~ Truthy(classify_person_by_patterns(ms.notes_text, ms.persons[k].name))}}
    \cup {ms.locations[k] : k \in
        {k \in 1..Len(ms.locations) :
            ~ Truthy(classify_location_by_patterns(ms.notes_text, ms.locations[k].value))}}
    \cup Range(ms.dates)

\* the entities that the list needing holds for a manuscript
MarkedIn(needing, manuscript_id) ==
    UNION {Range(needing[n].unclassified) : n \in
              {n \in 1..Len(needing) : needing[n].ms.manuscript_id = manuscript_id}}

\* the entities that needs_ai_classification holds for a manuscript
MarkedForAI(manuscript_id) == MarkedIn(needs_ai, manuscript_id)

\* the entities given to the classify_entities call in progress
JobEntities == UNION {Range(job.groups[g].entities) : g \in 1..Len(job.groups)}

\* the manuscript of the classify_entities call in progress
JobManuscript ==
    manuscripts[CHOOSE k \in 1..Len(manuscripts) : manuscripts[k].manuscript_id = job.manuscript_id]

----------------------------------------------------------------------------
(* A place name behind one prefix letter: extract_locations and KimaGazetteer.lookup *)

\* place names of 2 characters and more; four of them begin with a prefix letter
PrefixedPlaces == {"עי", "רומא", "צפת", "דמשק", "לה", "בבל", "לוד", "מצרים", "ונציה"}

InitPrefixed ==
    /\ pc \in {"extract_locations", "built"}
    /\ word \in PrefixedPlaces
    /\ text \in {prefix \o word : prefix \in HEBREW_PREFIXES}
    /\ out = (IF pc = "built" THEN NoPlace ELSE <<>>)
    /\ kima = KimaIndex({word}, <<>>, <<>>)
    /\ calls = 0
    /\ confidence_arg = 0
    /\ PipelineIdle
    /\ SetupIdle

NextPrefixed == CallExtractLocations \/ LookupBuilt

SpecPrefixed == InitPrefixed /\ [][NextPrefixed]_vars

\* C23: the token made of one prefix letter and a gazetteer place name of at least 2
\* characters resolves to that place name, also when the place name itself begins with
\* a prefix letter: extract_locations emits the place (the token being neither in the
\* gazetteer nor in a blacklist) and KimaGazetteer.lookup returns the record of the place.
C23_PrefixedNameResolves ==
    /\ (/\ pc = "locations_returned"
        /\ text \notin kima.places
        /\ text \notin LOCATION_BLACKLIST \cup HEBREW_MONTHS) =>
           \E n \in 1..Len(out) : out[n] # ValueError /\ out[n].value = word
    /\ pc = "looked_up" => out = PlaceData(word)

----------------------------------------------------------------------------
(* KimaGazetteer.lookup: the order of the stages *)

CascadeTexts == {"רומי", "ברומי", "וברומי", "בבל", "חלב"}

\* textual forms and variants of the same texts, for other places, for no place
CascadeForms ==
    { <<>>,
      [x \in {"רומי"} |-> "רומא"],
      [x \in {"רומי"} |-> "חלב"],
      [x \in {"בבל"} |-> "רומא"],
      [x \in {"ברומי"} |-> "בבל"] }
CascadeVariants ==
    { <<>>,
      [x \in {"רומי"} |-> "בבל"],
      [x \in {"רומי"} |-> "חלב"],
      [x \in {"ברומי"} |-> "רומא"] }

CascadeIndexes ==
    {KimaIndex(P, f, v) : P \in SUBSET {"בבל", "רומא", "רומי"},
                          f \in CascadeForms, v \in CascadeVariants}

InitCascade ==
    /\ pc = "built"
    /\ text \in CascadeTexts
    /\ word = ""
    /\ out = NoPlace
    /\ kima \in CascadeIndexes
    /\ calls = 0
    /\ confidence_arg = 0
    /\ PipelineIdle
    /\ SetupIdle

NextCascade == LookupBuilt

SpecCascade == InitCascade /\ [][NextCascade]_vars

\* the stages of lookup(text) on the index, as conditions on the index
CanonicalHit   == text \in kima.places
TextualFormHit == text \in DOMAIN kima.textual_forms /\ kima.textual_forms[text] \in kima.places
VariantHit     == text \in DOMAIN kima.variants /\ kima.variants[text] \in kima.places
StrippedHit    == _strip_prefixes(text) # text /\ lookup(kima, _strip_prefixes(text)) # NoPlace

\* C24: lookup resolves by strict priority: a canonical name wins over a textual form,
\* which wins over a variant, which wins over a prefix-stripped match; a textual form or
\* a variant whose canonical target is not in the master table is passed over; the
\* result is None only if every stage fails.
C24_LookupPriority ==
    pc = "looked_up" =>
        /\ CanonicalHit => out = PlaceData(text)
        /\ (~ CanonicalHit /\ TextualFormHit) => out = PlaceData(kima.textual_forms[text])
        /\ (~ CanonicalHit /\ ~ TextualFormHit /\ VariantHit) =>
               out = PlaceData(kima.variants[text])
        /\ (~ CanonicalHit /\ ~ TextualFormHit /\ ~ VariantHit /\ StrippedHit) =>
               out = lookup(kima, _strip_prefixes(text))
        /\ out = NoPlace <=>
               (~ CanonicalHit /\ ~ TextualFormHit /\ ~ VariantHit /\ ~ StrippedHit)

\* a text that is a textual form of one place and a variant of another was resolved to
\* the place of the textual form
C24_Witness ==
    /\ pc = "looked_up"
    /\ ~ CanonicalHit /\ TextualFormHit /\ VariantHit
    /\ kima.textual_forms[text] # kima.variants[text]
    /\ out = PlaceData(kima.textual_forms[text])

----------------------------------------------------------------------------
(* classify_location_by_patterns: the order of the pattern families *)

\* longest text, in words, given to classify_location_by_patterns for the family order
MaxFamilyWords == 3

\* one marker of each family of ALL_LOCATION_PATTERNS, and the prefixed location
FamilyWords == {"נכתב", "דפוס", "יליד", "נקבר", "גר", "עבד", "לפנים", "ספריית", "בקנדיה"}
FamilyNames == {"קנדיה"}

InitFamilies ==
    /\ pc = "call"
    /\ text \in TextsOver(FamilyWords, MaxFamilyWords)
    /\ word \in FamilyNames
    /\ out = None
    /\ PipelineIdle
    /\ SetupIdle
    /\ ExtractorsIdle

NextFamilies == CallClassifyLocation

SpecFamilies == InitFamilies /\ [][NextFamilies]_vars

\* the labels of the families in the order of precedence: production, publication,
\* birth, death, residence, activity, transfer, preservation
FamilyPrecedence == <<"production place", "published in", "born in", "died in",
                      "resided in", "worked in", "transferred to", "preserved in">>

FamilyWithRole(role) == CHOOSE p \in Range(ALL_LOCATION_PATTERNS) : p.role = role

\* the family labelled FamilyPrecedence[k] has a pattern matching in the context window
\* of the mention
FamilyHits(k) ==
    FamilyMatches(FamilyWithRole(FamilyPrecedence[k]), Lower(extract_location_context(text, word)))

\* C25: when a located mention matches several location pattern families in its context
\* window, classify_location_by_patterns returns the label of the earliest matching
\* family in the order production, publication, birth, death, residence, activity,
\* transfer, preservation; a later family's label is returned only if no earlier family
\* matches.
C25_EarliestFamilyWins ==
    /\ {ALL_LOCATION_PATTERNS[k].role : k \in 1..Len(ALL_LOCATION_PATTERNS)} = Range(FamilyPrecedence)
    /\ (pc = "ret" /\ FoundUnderVariant(text, word)) =>
           \A k \in 1..Len(FamilyPrecedence) :
               (FamilyHits(k) /\ \A j \in 1..(k - 1) : ~ FamilyHits(j)) => out = FamilyPrecedence[k]

\* a mention that the death family and the preservation family both match, the marker
\* of the later family standing first in the text, has the label of the earlier family
C25_Witness ==
    /\ pc = "ret"
    /\ FoundUnderVariant(text, word)
    /\ FamilyHits(4) /\ FamilyHits(8)
    /\ \A j \in 1..3 : ~ FamilyHits(j)
    /\ str_find(text, "ספריית") = 0
    /\ out = "died in"

----------------------------------------------------------------------------
(* classify_location_by_patterns: the cascade of heuristics *)

\* longest text, in words, given to classify_location_by_patterns for the heuristics
MaxHeuristicWords == 3

\* one marker of each group of the cascade, the location bare and as a member of a list
HeuristicWords == {"קולופון", "בידי", "בעבר", "עיר", "נושא", "נושא,", "קנדיה", "קנדיה,"}

\* a marker, more text than the context window holds, and the location
FarMarkerTexts == {JoinWords(<<marker, Filler, "קנדיה">>) : marker \in HeuristicWords \ {"קנדיה"}}

InitHeuristics ==
    /\ pc = "call"
    /\ text \in TextsOver(HeuristicWords, MaxHeuristicWords) \cup FarMarkerTexts
    /\ word \in FamilyNames
    /\ out = None
    /\ PipelineIdle
    /\ SetupIdle
    /\ ExtractorsIdle

NextHeuristics == CallClassifyLocation

SpecHeuristics == InitHeuristics /\ [][NextHeuristics]_vars

\* the context window of the mention, and the wide window: 500 characters on each side
\* of the place the context window starts at
WindowsOf(t, location_name) ==
    {[context |-> context,
      wide    |-> broader_context_at(t, IF str_find(t, context) = -1 THEN 0
                                        ELSE str_find(t, context))] :
        context \in {extract_location_context(t, location_name)}}

\* no pattern family matches in the context window
NoPrimaryFamilyIn(context) ==
    \A lowered \in {Lower(context)} :
        \A k \in 1..Len(ALL_LOCATION_PATTERNS) : ~ FamilyMatches(ALL_LOCATION_PATTERNS[k], lowered)

\* the label the five marker groups of the wide window give, None if there is none
FiveGroupLabel(wide) ==
    IF Found(COLOPHON_CONTEXT, wide) THEN "production place"
    ELSE IF Found(PRESERVATION_CONTEXT, wide) THEN "preserved in"
    ELSE IF Found(PROVENANCE_CONTEXT, wide) THEN "transferred to"
    ELSE IF Found(RESIDENCE_CONTEXT, wide) THEN "resided in"
    ELSE IF Found(SUBJECT_CONTEXT, wide) THEN "active in"
    ELSE None

\* the same with the list format of the context window (a comma or semicolon followed
\* by a Hebrew word) asked between the residence markers and the subject markers
ListAwareLabel(w) ==
    IF Found(COLOPHON_CONTEXT, w.wide) THEN "production place"
    ELSE IF Found(PRESERVATION_CONTEXT, w.wide) THEN "preserved in"
    ELSE IF Found(PROVENANCE_CONTEXT, w.wide) THEN "transferred to"
    ELSE IF Found(RESIDENCE_CONTEXT, w.wide) THEN "resided in"
    ELSE IF Found(LIST_FORMAT, w.context) THEN "transferred to"
    ELSE IF Found(SUBJECT_CONTEXT, w.wide) THEN "active in"
    ELSE None

\* C26 as stated: with no primary family matching, the cascade decides in the order
\* colophon, repository, provenance, residence, subject, first hit wins; a mention whose
\* wide window has subject markers and none of the four earlier groups is always
\* labelled "active in".
C26_FiveGroupCascade ==
    (pc = "ret" /\ FoundUnderVariant(text, word)) =>
        \A w \in WindowsOf(text, word) :
            NoPrimaryFamilyIn(w.context) =>
                \A label \in {FiveGroupLabel(w.wide)} : label # None => out = label

\* C26 amended: with no primary family matching, the cascade decides in the order
\* colophon, repository, provenance, residence markers of the wide window, then the list
\* format of the context window (a comma or semicolon followed by a Hebrew word), which
\* gives "transferred to", then subject markers of the wide window, which give
\* "active in"; a mention with subject markers and none of the four earlier groups is
\* labelled "active in" exactly when its context window holds no list.
C26_CascadeWithListFormat ==
    (pc = "ret" /\ FoundUnderVariant(text, word)) =>
        \A w \in WindowsOf(text, word) :
            NoPrimaryFamilyIn(w.context) =>
                \A label \in {ListAwareLabel(w)} : label # None => out = label

\* a mention in a list, with a subject marker and none of the four earlier groups in
\* the wide window, has been labelled "transferred to"
C26_Witness ==
    /\ pc = "ret"
    /\ FoundUnderVariant(text, word)
    /\ \E w \in WindowsOf(text, word) :
           /\ NoPrimaryFamilyIn(w.context)
           /\ FiveGroupLabel(w.wide) = "active in"
           /\ Found(LIST_FORMAT, w.context)
    /\ out = "transferred to"

----------------------------------------------------------------------------
(* classify_person_by_patterns: the order of the families and the context window *)

\* one marker of each family of ALL_PERSON_PATTERNS (the colophon family needs two)
PersonMarkers == {"נשלם", "כתב", "מחבר", "תרגם", "פירש", "צייר", "רשות",
                  "העביר", "קנה", "מכר", "הקדיש", "קטלג", "צנזור"}
\* what separates a marker from the name: nothing, or more text than the window holds
Gaps == {<<>>, <<Filler>>}
\* a marker, the person name, a marker
WindowTexts ==
    {JoinWords(<<before>> \o gap_before \o <<"משה">> \o gap_after \o <<after>>) :
        before \in PersonMarkers, gap_before \in Gaps, gap_after \in Gaps, after \in PersonMarkers}

InitWindow ==
    /\ pc = "call"
    /\ text \in WindowTexts
    /\ word \in {"משה"}
    /\ out = None
    /\ PipelineIdle
    /\ SetupIdle
    /\ ExtractorsIdle

NextWindow == CallClassifyPerson

SpecWindow == InitWindow /\ [][NextWindow]_vars

\* the roles of the families in the order of precedence
PersonPrecedence == <<"colophon scribe", "scribe", "author", "translator", "commentator",
                      "illuminator", "owner", "previous owner", "purchaser", "seller",
                      "donor", "cataloger", "censor">>

PersonFamilyWithRole(role) == CHOOSE p \in Range(ALL_PERSON_PATTERNS) : p.role = role

\* 100 characters on each side of the first occurrence of the person name
PersonWindow ==
    LET at == str_find(Lower(text), Lower(word))
    IN  Slice(text, Max(0, at - 100), Min(Len(text), at + Len(word) + 100))

\* the family with the role PersonPrecedence[k] has a marker matching inside the window
PersonFamilyHits(k) ==
    FamilyMatches(PersonFamilyWithRole(PersonPrecedence[k]), Lower(PersonWindow))

\* the family with the role PersonPrecedence[k] has a marker matching somewhere in the text
PersonFamilyInText(k) ==
    FamilyMatches(PersonFamilyWithRole(PersonPrecedence[k]), Lower(text))

\* C27: for a person name that occurs in the text, classify_person_by_patterns returns
\* the role of the first family, in the order colophon scribe, scribe, author,
\* translator, commentator, illuminator, owner, previous owner, purchaser, seller, donor,
\* cataloger, censor, that has a marker matching inside the window of 100 characters on
\* each side of the first occurrence of the name; markers outside the window do not
\* influence the result, and with no marker inside it the result is no-match.
C27_FirstFamilyInWindow ==
    /\ {ALL_PERSON_PATTERNS[k].role : k \in 1..Len(ALL_PERSON_PATTERNS)} = Range(PersonPrecedence)
    /\ (pc = "ret" /\ Contains(Lower(text), Lower(word))) =>
           \A hits \in {{k \in 1..Len(PersonPrecedence) : PersonFamilyHits(k)}} :
               /\ \A k \in hits : (\A j \in hits : k <= j) => out = PersonPrecedence[k]
               /\ hits = {} => out = None

\* a scribe marker outside the window and a censor marker inside it: the person is the censor
C27_Witness ==
    /\ pc = "ret"
    /\ Contains(Lower(text), Lower(word))
    /\ PersonFamilyInText(2) /\ ~ PersonFamilyHits(2)
    /\ PersonFamilyHits(13)
    /\ out = "censor"

----------------------------------------------------------------------------
(* GrokClassifier._classify_batch: the chunk calls of one batch *)

\* the arguments of the calls of GrokClassifier.classify_entities whose batches have more
\* chunks than the executor has workers, and persons of whom the patterns resolve one
BatchCalls ==
    {[text |-> "1450 1460 1470",
      entities |-> <<ExtractedEntity("date", "1450"), ExtractedEntity("date", "1460"),
                     ExtractedEntity("date", "1470")>>],
     [text |-> MsScribeAndOther.notes_text,
      entities |-> person_entities(MsScribeAndOther)]}

InitBatch ==
    /\ text = ""
    /\ word = ""
    /\ out = None
    /\ mode = "batch"
    /\ requests_available \in BOOLEAN
    /\ manuscripts = <<>>
    /\ ms_index = 1
    /\ all_classified = <<>>
    /\ needs_ai = <<>>
    /\ pc = "batch"
    /\ job \in {NewJob("batch", c.text, c.entities,
                        {c.entities[n].value : n \in 1..Len(c.entities)}) : c \in BatchCalls}
    /\ batch = NoBatch
    /\ chunks = <<>>
    /\ pattern_snapshot = <<>>
    /\ log = {}
    /\ ExtractorsIdle
    /\ SetupIdle

NextBatch ==
    \/ StartBatch
    \/ WorkerTakesChunk
    \/ ChunkAttempt
    \/ CollectResult
    \/ FinishBatch
    \/ ReturnClassified

SpecBatch == InitBatch /\ [][NextBatch]_vars

\* the values of the batch left to the AI classifier: the persons without a pattern role,
\* every value of another type
UnresolvedValues ==
    IF batch.entity_type = "person"
    THEN {batch.pattern_results[n].key : n \in {m \in 1..Len(batch.pattern_results) :
                                                    ~ Truthy(batch.pattern_results[m].label)}}
    ELSE batch.entity_map

\* the places (chunk, position) at which a value was submitted
PlacesOf(v) ==
    {p \in UNION {{<<c, i>> : i \in 1..Len(chunks[c].items)} : c \in 1..Len(chunks)} :
        chunks[p[1]].items[p[2]] = v}

RunningCalls == {c \in 1..Len(chunks) : chunks[c].status = "running"}

\* a step of a worker thread: the chunk call c, queued or running, moves on
WorkerStepOf(c) ==
    /\ batch # NoBatch
    /\ chunks[c].status \in {"queued", "running"}
    /\ Len(chunks') = Len(chunks)
    /\ chunks'[c] # chunks[c]

\* the keys of the result of chunk call c are in all_results
ResultMerged(c) == DictKeys(chunks[c].result) \subseteq DictKeys(batch.all_results)

\* C28: _classify_batch splits the unresolved values into chunks such that every
\* unresolved value is in exactly one chunk and every chunk holds at most chunk_size
\* values; at most max_workers chunk calls run at the same time; the worker threads
\* write no shared state (a worker step changes its own chunk call only, and
\* all_results changes only when the coordinating thread merges a finished call); and
\* _classify_batch returns only after every chunk call has finished and its result
\* has been merged.
C28_BoundedChunkCalls ==
    /\ [](batch # NoBatch =>
            /\ \A v \in UnresolvedValues : Cardinality(PlacesOf(v)) = 1
            /\ \A c \in 1..Len(chunks) :
                   /\ Len(chunks[c].items) \in 1..ChunkSize
                   /\ Range(chunks[c].items) \subseteq UnresolvedValues
            /\ Cardinality(RunningCalls) <= MaxWorkers)
    /\ [][\A c \in 1..Len(chunks) :
             WorkerStepOf(c) =>
                 /\ batch' = batch /\ job' = job /\ out' = out
                 /\ all_classified' = all_classified
                 /\ \A d \in 1..Len(chunks) : d # c => chunks'[d] = chunks[d]]_vars
    /\ [][(batch # NoBatch /\ batch' # NoBatch /\ batch'.all_results # batch.all_results) =>
             \E c \in 1..Len(chunks) :
                 /\ chunks[c].status = "finished" /\ chunks'[c].status = "merged"
                 /\ batch'.all_results = DictUpdate(batch.all_results, chunks[c].result)]_vars
    /\ [][(batch # NoBatch /\ batch' = NoBatch) =>
             \A c \in 1..Len(chunks) : chunks[c].status = "merged" /\ ResultMerged(c)]_vars

\* more chunk calls than workers: the pool is full and a call waits in the queue
C28_Witness ==
    /\ batch # NoBatch
    /\ Len(chunks) > MaxWorkers
    /\ Cardinality(RunningCalls) = MaxWorkers
    /\ \E c \in 1..Len(chunks) : chunks[c].status = "queued"
    /\ \A v \in UnresolvedValues : Cardinality(PlacesOf(v)) = 1

\* all_results after the results of the chunk calls 1..k were merged in the order of
\* their submission
RECURSIVE MergedInSubmissionOrder(_)
MergedInSubmissionOrder(k) ==
    IF k = 0 THEN batch.pattern_results
    ELSE DictUpdate(MergedInSubmissionOrder(k - 1), chunks[k].result)

\* the (value, label) pairs _classify_batch builds from a dict of results
ReturnedPairs(all_results) ==
    LET classified == build_classified(all_results, batch.entity_map, batch.entity_type)
    IN  {<<classified[n].value, classified[n].label>> : n \in 1..Len(classified)}

AllMerged == batch # NoBatch /\ \A c \in 1..Len(chunks) : chunks[c].status = "merged"

\* C29: for fixed AI replies per chunk, the set of (value, label) pairs returned by
\* _classify_batch does not depend on the order in which the chunk calls complete (it
\* is what merging the replies in the order of submission gives), including when a
\* reply has keys for values of another chunk of the batch.
C29_CompletionOrderIrrelevant ==
    AllMerged => ReturnedPairs(batch.all_results) = ReturnedPairs(MergedInSubmissionOrder(Len(chunks)))

----------------------------------------------------------------------------
(* pipeline.py: run_extraction_pipeline, from the loading of the gazetteer on *)

\* the fields of Config that the run reads; gazetteer is what the file at gazetteer_path
\* holds
Config(use_kima, gazetteer) ==
    [input_excel_path |-> "data/manuscripts.xlsx", use_kima |-> use_kima, gazetteer |-> gazetteer]

FrozenInstanceError == [raised |-> "FrozenInstanceError"]
ZeroDivisionError == [raised |-> "ZeroDivisionError"]

\* config.<name> = value on the dataclass Config, which is declared frozen: the assignment
\* raises and the field keeps its value
frozen_setattr(cfg, name, value) == FrozenInstanceError

\* the percentages printed after loading: 100 * n / total_places
statistics_printed(k) == IF k.places = {} THEN ZeroDivisionError ELSE [raised |-> None]

\* the legacy gazetteer of the run: loaded only if not config.use_kima
legacy_gazetteer(cfg) == IF ~ cfg.use_kima THEN cfg.gazetteer ELSE {}

SetupTexts == {"נכתב בדמשק", "רומי", ""}
GazetteerFiles == {{}, {"דמשק"}}

InitSetup ==
    /\ pc = "load_gazetteer"
    /\ config \in {Config(use_kima, gazetteer) : use_kima \in BOOLEAN, gazetteer \in GazetteerFiles}
    /\ data_dir \in DataDirs
    /\ text \in SetupTexts
    /\ word = ""
    /\ out = None
    /\ kima = NoKima
    /\ calls = 0
    /\ confidence_arg = 0
    /\ warnings = <<>>
    /\ PipelineIdle

\* the exception leaves run_extraction_pipeline
Raise(exception) ==
    /\ out' = exception
    /\ pc' = "raised"

\* "Load gazetteer (legacy or Kima)"
LoadGazetteer ==
    /\ pc = "load_gazetteer"
    /\ IF ~ config.use_kima
       THEN /\ pc' = "extract"
            /\ UNCHANGED <<out, kima, warnings>>
       ELSE IF ~ data_dir.exists
       THEN /\ warnings' = warnings \o <<"Kima data directory not found">>
            /\ Raise(frozen_setattr(config, "use_kima", FALSE))
            /\ UNCHANGED kima
       ELSE IF _load_all(data_dir) = FileNotFoundError
       THEN /\ warnings' = warnings \o <<"Kima data not found">>
            /\ Raise(frozen_setattr(config, "use_kima", FALSE))
            /\ UNCHANGED kima
       ELSE /\ kima' = _load_all(data_dir)
            /\ warnings' = warnings \o load_warnings(data_dir)
            /\ IF statistics_printed(_load_all(data_dir)) = ZeroDivisionError
               THEN Raise(ZeroDivisionError)
               ELSE /\ pc' = "extract"
                    /\ UNCHANGED out
    /\ UNCHANGED <<text, word, calls, confidence_arg, config, data_dir, pipeline_vars>>

\* "Step 2: Extract entities", pattern-based: the locations of a manuscript text
ExtractEntities ==
    /\ pc = "extract"
    /\ out' = (IF kima # NoKima THEN extract_locations_with_kima(text, kima)
               ELSE extract_locations(text, legacy_gazetteer(config)))
    /\ pc' = "classify"
    /\ UNCHANGED <<text, word, pipeline_vars, extractor_vars, setup_vars>>

\* "Step 3: Classify entities": hybrid classification if config.use_kima, standard otherwise
ChooseClassification ==
    /\ pc = "classify"
    /\ mode' = (IF config.use_kima THEN "hybrid" ELSE "plain")
    /\ pc' = "done"
    /\ UNCHANGED <<text, word, out, extractor_vars, setup_vars, requests_available, manuscripts,
                   ms_index, all_classified, needs_ai, job, batch, chunks, pattern_snapshot, log>>

NextSetup == LoadGazetteer \/ ExtractEntities \/ ChooseClassification

SpecSetup == InitSetup /\ [][NextSetup]_vars

\* C30: when use_kima is set and the Kima data directory or its master places file
\* cannot be found, run_extraction_pipeline reports a warning, falls back to the legacy
\* gazetteer and goes on through extraction and standard classification to completion:
\* no exception leaves it, the locations are extracted with the legacy gazetteer, and
\* the classification chosen is the standard one.
C30_FallsBackToLegacy ==
    (config # NoConfig /\ config.use_kima /\ ~ file_exists(data_dir, "places")) =>
        /\ pc # "raised"
        /\ pc # "load_gazetteer" => (warnings # <<>> /\ kima = NoKima)
        /\ pc \in {"classify", "done"} => out = extract_locations(text, config.gazetteer)
        /\ pc = "done" => mode = "plain"

====
